---- MODULE Spec2Model ----
(***************************************************************************)
(* Model of the binary codec of sv2za (src/src/fb): the bounds-checked     *)
(* navigator FbBuf (raw.rs), the catalog reader and writer                 *)
(* (trpmcatalog.rs) and the two in-place patchers (tracn.rs, tralk.rs).    *)
(*                                                                         *)
(* A buffer is a sequence of bytes 0..255; byte position p of the code is  *)
(* element p + 1 of the sequence.  usize is taken to be 64 bits wide: the  *)
(* operands of every position computation come from 16 and 32 bit fields   *)
(* of the buffer, so no sum of the code reaches 2^64.  A 32 bit value read *)
(* as a position, length or count is kept exactly below 2^30 and is        *)
(* represented by Huge = 2^30 from there on: the code only ever compares   *)
(* such a value, or a position computed from it, with the buffer length,   *)
(* which is far smaller.                                                   *)
(***************************************************************************)
EXTENDS Integers, Sequences, FiniteSets

VARIABLES buf, buf0, doc, pc, op, arg, res, log

vars == <<buf, buf0, doc, pc, op, arg, res, log>>

Huge == 2^30

Min(a, b) == IF a <= b THEN a ELSE b

Max(a, b) == IF a >= b THEN a ELSE b

(***************************************************************************)
(* anyhow::Result and Option.  An Err keeps, in alloc, the capacity the    *)
(* failing call had asked Vec::with_capacity for before it failed.         *)
(***************************************************************************)
Ok(x) == [ok |-> TRUE, v |-> x, err |-> "none", alloc |-> 0]

Err(e) == [ok |-> FALSE, v |-> 0, err |-> e, alloc |-> 0]

Some(x) == [some |-> TRUE, x |-> x]

None == [some |-> FALSE, x |-> 0]

(***************************************************************************)
(* Little-endian values of bytes.                                          *)
(***************************************************************************)
le_u16(b0, b1) == b0 + 256 * b1

le_u32(b0, b1, b2, b3) ==
    IF b3 >= 64 THEN Huge ELSE b0 + 256 * b1 + 65536 * b2 + 16777216 * b3

le_i32(b0, b1, b2, b3) ==
    b0 + 256 * b1 + 65536 * b2 + 16777216 * (IF b3 >= 128 THEN b3 - 256 ELSE b3)

(***************************************************************************)
(* FbBuf: the addressing primitives.                                       *)
(***************************************************************************)
read_u8_strict(b, pos) ==
    IF pos + 1 < Len(b) THEN Ok(b[pos + 1]) ELSE Err("oob")

read_u8(b, pos) ==
    IF pos < Len(b) THEN Ok(b[pos + 1]) ELSE Err("oob")

read_u16(b, pos) ==
    IF pos + 2 <= Len(b) THEN Ok(le_u16(b[pos + 1], b[pos + 2])) ELSE Err("oob")

read_u32(b, pos) ==
    IF pos + 4 <= Len(b)
    THEN Ok(le_u32(b[pos + 1], b[pos + 2], b[pos + 3], b[pos + 4]))
    ELSE Err("oob")

read_i32(b, pos) ==
    IF pos + 4 <= Len(b)
    THEN Ok(le_i32(b[pos + 1], b[pos + 2], b[pos + 3], b[pos + 4]))
    ELSE Err("oob")

(***************************************************************************)
(* FbBuf: the table navigator.                                             *)
(***************************************************************************)
root_table_pos_nocheck(b) == read_u32(b, 0)

root_table_pos(b) ==
    LET off == read_u32(b, 0) IN
    IF ~off.ok THEN off
    ELSE IF off.v >= Len(b) THEN Err("oob")
    ELSE Ok(off.v)

vtable_pos(b, table_pos) ==
    LET soff == read_i32(b, table_pos) IN
    IF ~soff.ok THEN soff
    ELSE LET vt == table_pos - Max(soff.v, -Huge) IN
         IF vt < 0 THEN Err("underflow") ELSE Ok(vt)

field_offset_strict(b, vtable_pos_, field_index) ==
    LET vtable_len == read_u16(b, vtable_pos_) IN
    IF ~vtable_len.ok THEN vtable_len
    ELSE LET want == 4 + field_index * 2 IN
         IF want + 2 > vtable_len.v THEN Err("oob")
         ELSE read_u16(b, vtable_pos_ + want)

field_offset(b, vtable_pos_, field_index) ==
    LET vtable_len == read_u16(b, vtable_pos_) IN
    IF ~vtable_len.ok THEN vtable_len
    ELSE LET want == 4 + field_index * 2 IN
         IF want + 2 > vtable_len.v THEN Ok(0)
         ELSE read_u16(b, vtable_pos_ + want)

table_field_loc(b, table_pos, vtable_pos_, field_index) ==
    LET fo == field_offset(b, vtable_pos_, field_index) IN
    IF ~fo.ok THEN fo
    ELSE IF fo.v = 0 THEN Ok(None)
    ELSE Ok(Some(table_pos + fo.v))

(* Each indirect accessor is given in two parts: the accessor, which reads  *)
(* fo = self.field_offset(vtable_pos, field_index), and the rest of its     *)
(* body, an operator of the result fo of that call.                         *)
table_pos_at(b, table_pos, fo) ==
    IF ~fo.ok THEN fo
    ELSE IF fo.v = 0 THEN Ok(None)
    ELSE LET at == table_pos + fo.v
             uoff == read_u32(b, at) IN
         IF ~uoff.ok THEN uoff
         ELSE IF uoff.v = 0 THEN Ok(None)
         ELSE LET target == at + uoff.v IN
              IF target >= Len(b) THEN Err("oob") ELSE Ok(Some(target))

table_field_table_pos(b, table_pos, vtable_pos_, field_index) ==
    table_pos_at(b, table_pos, field_offset(b, vtable_pos_, field_index))

string_loc_at(b, table_pos, fo) ==
    IF ~fo.ok THEN fo
    ELSE IF fo.v = 0 THEN Ok(None)
    ELSE LET at == table_pos + fo.v
             uoff == read_u32(b, at) IN
         IF ~uoff.ok THEN uoff
         ELSE IF uoff.v = 0 THEN Ok(None)
         ELSE LET str_pos == at + uoff.v
                  len == read_u32(b, str_pos) IN
              IF ~len.ok THEN len
              ELSE Ok(Some([len_pos |-> str_pos, bytes_pos |-> str_pos + 4,
                            len |-> len.v]))

table_field_string_loc(b, table_pos, vtable_pos_, field_index) ==
    string_loc_at(b, table_pos, field_offset(b, vtable_pos_, field_index))

(***************************************************************************)
(* String::from_utf8_lossy: every maximal ill-formed part of the bytes     *)
(* becomes U+FFFD (EF BF BD); well-formed UTF-8 is kept as it is.          *)
(***************************************************************************)
utf8_char_width(x) ==
    IF x < 128 THEN 1
    ELSE IF x >= 194 /\ x <= 223 THEN 2
    ELSE IF x >= 224 /\ x <= 239 THEN 3
    ELSE IF x >= 240 /\ x <= 244 THEN 4
    ELSE 0

utf8_is_cont(x) == x >= 128 /\ x <= 191

utf8_second_ok(first, x) ==
    \/ first = 224 /\ x >= 160 /\ x <= 191
    \/ first >= 225 /\ first <= 236 /\ utf8_is_cont(x)
    \/ first = 237 /\ x >= 128 /\ x <= 159
    \/ first >= 238 /\ first <= 239 /\ utf8_is_cont(x)
    \/ first = 240 /\ x >= 144 /\ x <= 191
    \/ first >= 241 /\ first <= 243 /\ utf8_is_cont(x)
    \/ first = 244 /\ x >= 128 /\ x <= 143

utf8_chunk(s, i) ==
    LET get(k) == IF k <= Len(s) THEN s[k] ELSE 0
        w == utf8_char_width(s[i]) IN
    IF w = 1 THEN [n |-> 1, valid |-> TRUE]
    ELSE IF w = 2 THEN
        IF utf8_is_cont(get(i + 1)) THEN [n |-> 2, valid |-> TRUE]
        ELSE [n |-> 1, valid |-> FALSE]
    ELSE IF w = 3 THEN
        IF ~utf8_second_ok(s[i], get(i + 1)) THEN [n |-> 1, valid |-> FALSE]
        ELSE IF ~utf8_is_cont(get(i + 2)) THEN [n |-> 2, valid |-> FALSE]
        ELSE [n |-> 3, valid |-> TRUE]
    ELSE IF w = 4 THEN
        IF ~utf8_second_ok(s[i], get(i + 1)) THEN [n |-> 1, valid |-> FALSE]
        ELSE IF ~utf8_is_cont(get(i + 2)) THEN [n |-> 2, valid |-> FALSE]
        ELSE IF ~utf8_is_cont(get(i + 3)) THEN [n |-> 3, valid |-> FALSE]
        ELSE [n |-> 4, valid |-> TRUE]
    ELSE [n |-> 1, valid |-> FALSE]

RECURSIVE utf8_lossy_from(_, _, _)
utf8_lossy_from(s, i, out) ==
    IF i > Len(s) THEN out
    ELSE LET c == utf8_chunk(s, i) IN
         utf8_lossy_from(s, i + c.n,
             IF c.valid THEN out \o SubSeq(s, i, i + c.n - 1)
             ELSE out \o <<239, 191, 189>>)

from_utf8_lossy(s) == utf8_lossy_from(s, 1, <<>>)

(* The body of table_field_string after its call of table_field_string_loc, *)
(* whose result is loc.                                                     *)
string_at(b, loc) ==
    IF ~loc.ok THEN loc
    ELSE IF ~loc.v.some THEN Ok(None)
    ELSE LET end == loc.v.x.bytes_pos + loc.v.x.len IN
         IF end > Len(b) THEN Err("oob")
         ELSE Ok(Some(from_utf8_lossy(SubSeq(b, loc.v.x.bytes_pos + 1, end))))

table_field_string(b, table_pos, vtable_pos_, field_index) ==
    string_at(b, table_field_string_loc(b, table_pos, vtable_pos_, field_index))

scalar_u32_at(b, table_pos, fo) ==
    IF ~fo.ok THEN fo
    ELSE IF fo.v = 0 THEN Ok(None)
    ELSE LET x == read_u32(b, table_pos + fo.v) IN
         IF ~x.ok THEN x ELSE Ok(Some(x.v))

table_field_scalar_u32(b, table_pos, vtable_pos_, field_index) ==
    scalar_u32_at(b, table_pos, field_offset(b, vtable_pos_, field_index))

scalar_u16_at(b, table_pos, fo) ==
    IF ~fo.ok THEN fo
    ELSE IF fo.v = 0 THEN Ok(None)
    ELSE LET x == read_u16(b, table_pos + fo.v) IN
         IF ~x.ok THEN x ELSE Ok(Some(x.v))

table_field_scalar_u16(b, table_pos, vtable_pos_, field_index) ==
    scalar_u16_at(b, table_pos, field_offset(b, vtable_pos_, field_index))

scalar_u8_at(b, table_pos, fo) ==
    IF ~fo.ok THEN fo
    ELSE IF fo.v = 0 THEN Ok(None)
    ELSE LET x == read_u8(b, table_pos + fo.v) IN
         IF ~x.ok THEN x ELSE Ok(Some(x.v))

table_field_scalar_u8(b, table_pos, vtable_pos_, field_index) ==
    scalar_u8_at(b, table_pos, field_offset(b, vtable_pos_, field_index))

(***************************************************************************)
(* The loop of table_field_vec_of_tables over the n offset slots.          *)
(***************************************************************************)
RECURSIVE vec_elems_failhole(_, _, _, _, _)
vec_elems_failhole(b, base, n, i, out) ==
    IF i >= n THEN Ok(Some(out))
    ELSE LET elem_pos == base + i * 4
             uoff == read_u32(b, elem_pos) IN
         IF ~uoff.ok THEN uoff
         ELSE LET tpos == elem_pos + uoff.v IN
              IF uoff.v = 0 \/ tpos >= Len(b) THEN Err("oob")
              ELSE vec_elems_failhole(b, base, n, i + 1, Append(out, tpos))

RECURSIVE vec_elems(_, _, _, _, _)
vec_elems(b, base, n, i, out) ==
    IF i >= n THEN Ok(Some(out))
    ELSE LET elem_pos == base + i * 4
             uoff == read_u32(b, elem_pos) IN
         IF ~uoff.ok THEN uoff
         ELSE IF uoff.v = 0 THEN vec_elems(b, base, n, i + 1, out)
         ELSE LET tpos == elem_pos + uoff.v IN
              IF tpos >= Len(b) THEN Err("oob")
              ELSE vec_elems(b, base, n, i + 1, Append(out, tpos))

vec_of_tables_at(b, table_pos, fo) ==
    IF ~fo.ok THEN fo
    ELSE IF fo.v = 0 THEN Ok(None)
    ELSE LET at == table_pos + fo.v
             uoff == read_u32(b, at) IN
         IF ~uoff.ok THEN uoff
         ELSE IF uoff.v = 0 THEN Ok(None)
         ELSE LET vec_pos == at + uoff.v
                  n == read_u32(b, vec_pos) IN
              IF ~n.ok THEN n
              ELSE [vec_elems(b, vec_pos + 4, n.v, 0, <<>>) EXCEPT !.alloc = n.v]

table_field_vec_of_tables(b, table_pos, vtable_pos_, field_index) ==
    vec_of_tables_at(b, table_pos, field_offset(b, vtable_pos_, field_index))

vec_pos_at(b, table_pos, fo) ==
    IF ~fo.ok THEN fo
    ELSE IF fo.v = 0 THEN Ok(None)
    ELSE LET at == table_pos + fo.v
             uoff == read_u32(b, at) IN
         IF ~uoff.ok THEN uoff
         ELSE IF uoff.v = 0 THEN Ok(None)
         ELSE Ok(Some(at + uoff.v))

table_field_vec_pos(b, table_pos, vtable_pos_, field_index) ==
    vec_pos_at(b, table_pos, field_offset(b, vtable_pos_, field_index))

(***************************************************************************)
(* trpmcatalog.rs: read_entries and read_doc.  A document is               *)
(* [version, entries]; strings are their UTF-8 bytes.                      *)
(***************************************************************************)
unwrap_or(o, d) == IF o.some THEN o.x ELSE d

as_i16_unsigned(x) == x

as_i16(x) == IF x >= 32768 THEN x - 65536 ELSE x

as_u16(x) == x % 65536

read_species_key(b, spec_pos) ==
    LET spec_vt == vtable_pos(b, spec_pos) IN
    IF ~spec_vt.ok THEN spec_vt
    ELSE LET species == table_field_scalar_u16(b, spec_pos, spec_vt.v, 0) IN
    IF ~species.ok THEN species
    ELSE LET form == table_field_scalar_u16(b, spec_pos, spec_vt.v, 1) IN
    IF ~form.ok THEN form
    ELSE LET gender == table_field_scalar_u8(b, spec_pos, spec_vt.v, 2) IN
    IF ~gender.ok THEN gender
    ELSE Ok([species |-> unwrap_or(species.v, 0),
             form |-> unwrap_or(form.v, 0),
             gender |-> unwrap_or(gender.v, 0)])

RECURSIVE read_animations(_, _, _, _)
read_animations(b, anim_tables, i, v) ==
    IF i > Len(anim_tables) THEN Ok(v)
    ELSE LET apos == anim_tables[i]
             avt == vtable_pos(b, apos) IN
    IF ~avt.ok THEN avt
    ELSE LET form_number == table_field_scalar_u16(b, apos, avt.v, 0) IN
    IF ~form_number.ok THEN form_number
    ELSE LET path == table_field_string(b, apos, avt.v, 1) IN
    IF ~path.ok THEN path
    ELSE read_animations(b, anim_tables, i + 1,
             Append(v, [form_number |->
                            IF form_number.v.some THEN as_i16(form_number.v.x) ELSE 0,
                        path |-> unwrap_or(path.v, <<>>)]))

RECURSIVE read_locators(_, _, _, _)
read_locators(b, loc_tables, i, v) ==
    IF i > Len(loc_tables) THEN Ok(v)
    ELSE LET lpos == loc_tables[i]
             lvt == vtable_pos(b, lpos) IN
    IF ~lvt.ok THEN lvt
    ELSE LET form_number == table_field_scalar_u16(b, lpos, lvt.v, 0) IN
    IF ~form_number.ok THEN form_number
    ELSE LET loc_index == table_field_scalar_u8(b, lpos, lvt.v, 1) IN
    IF ~loc_index.ok THEN loc_index
    ELSE LET loc_path == table_field_string(b, lpos, lvt.v, 2) IN
    IF ~loc_path.ok THEN loc_path
    ELSE read_locators(b, loc_tables, i + 1,
             Append(v, [form_number |->
                            IF form_number.v.some THEN as_i16(form_number.v.x) ELSE 0,
                        loc_index |-> unwrap_or(loc_index.v, 0),
                        loc_path |-> unwrap_or(loc_path.v, <<>>)]))

(* One pass of the loop of read_doc over entry_tables: Ok(Some(entry)),    *)
(* Ok(None) where the code says continue, or the error it returns.         *)
read_doc_entry(b, tpos) ==
    LET vt == vtable_pos(b, tpos) IN
    IF ~vt.ok THEN vt
    ELSE LET spec_pos == table_field_table_pos(b, tpos, vt.v, 0) IN
    IF ~spec_pos.ok THEN spec_pos
    ELSE IF ~spec_pos.v.some THEN Ok(None)
    ELSE LET key == read_species_key(b, spec_pos.v.x) IN
    IF ~key.ok THEN key
    ELSE LET model_path == table_field_string(b, tpos, vt.v, 1) IN
    IF ~model_path.ok THEN model_path
    ELSE LET material_table_path == table_field_string(b, tpos, vt.v, 2) IN
    IF ~material_table_path.ok THEN material_table_path
    ELSE LET config_path == table_field_string(b, tpos, vt.v, 3) IN
    IF ~config_path.ok THEN config_path
    ELSE LET icon_path == table_field_string(b, tpos, vt.v, 6) IN
    IF ~icon_path.ok THEN icon_path
    ELSE LET unk_id == table_field_scalar_u32(b, tpos, vt.v, 7) IN
    IF ~unk_id.ok THEN unk_id
    ELSE LET defence_path == table_field_string(b, tpos, vt.v, 8) IN
    IF ~defence_path.ok THEN defence_path
    ELSE LET anim_tables == table_field_vec_of_tables(b, tpos, vt.v, 4) IN
    IF ~anim_tables.ok THEN anim_tables
    ELSE LET animations == IF anim_tables.v.some
                           THEN read_animations(b, anim_tables.v.x, 1, <<>>)
                           ELSE Ok(<<>>) IN
    IF ~animations.ok THEN animations
    ELSE LET loc_tables == table_field_vec_of_tables(b, tpos, vt.v, 5) IN
    IF ~loc_tables.ok THEN loc_tables
    ELSE LET locators == IF loc_tables.v.some
                         THEN read_locators(b, loc_tables.v.x, 1, <<>>)
                         ELSE Ok(<<>>) IN
    IF ~locators.ok THEN locators
    ELSE Ok(Some([key |-> key.v,
                  model_path |-> unwrap_or(model_path.v, <<>>),
                  material_table_path |-> unwrap_or(material_table_path.v, <<>>),
                  config_path |-> unwrap_or(config_path.v, <<>>),
                  animations |-> animations.v,
                  locators |-> locators.v,
                  icon_path |-> unwrap_or(icon_path.v, <<>>),
                  unk_id |-> unwrap_or(unk_id.v, 0),
                  defence_path |-> unwrap_or(defence_path.v, <<>>)]))

(* The loop of read_doc from its i-th pass on, entries being the vector    *)
(* pushed so far; push_entry is the end of a pass whose outcome is e.      *)
RECURSIVE read_doc_entries(_, _, _, _)
push_entry(b, entry_tables, i, entries, e) ==
    IF ~e.ok THEN e
    ELSE read_doc_entries(b, entry_tables, i + 1,
             IF e.v.some THEN Append(entries, e.v.x) ELSE entries)

read_doc_entries(b, entry_tables, i, entries) ==
    IF i > Len(entry_tables) THEN Ok(entries)
    ELSE push_entry(b, entry_tables, i, entries,
                    read_doc_entry(b, entry_tables[i]))

(* Ok(TrpmCatalogDoc { version, entries }) once the loop has ended.         *)
read_doc_result(version, entries) ==
    IF ~entries.ok THEN entries
    ELSE Ok([version |-> version, entries |-> entries.v])

read_doc(b) ==
    LET root == root_table_pos(b) IN
    IF ~root.ok THEN root
    ELSE LET root_vt == vtable_pos(b, root.v) IN
    IF ~root_vt.ok THEN root_vt
    ELSE LET vpos == table_field_table_pos(b, root.v, root_vt.v, 0) IN
    IF ~vpos.ok THEN vpos
    ELSE LET vvt == IF vpos.v.some THEN vtable_pos(b, vpos.v.x) ELSE Ok(0) IN
    IF ~vvt.ok THEN vvt
    ELSE LET ver == IF vpos.v.some
                    THEN table_field_scalar_u32(b, vpos.v.x, vvt.v, 0)
                    ELSE Ok(None) IN
    IF ~ver.ok THEN ver
    ELSE LET version == unwrap_or(ver.v, 0)
             entry_tables == table_field_vec_of_tables(b, root.v, root_vt.v, 1) IN
    IF ~entry_tables.ok THEN entry_tables
    ELSE IF ~entry_tables.v.some THEN Ok([version |-> version, entries |-> <<>>])
    ELSE read_doc_result(version, read_doc_entries(b, entry_tables.v.x, 1, <<>>))

(* One pass of the loop of read_entries.                                   *)
read_entries_entry(b, tpos) ==
    LET vt == vtable_pos(b, tpos) IN
    IF ~vt.ok THEN vt
    ELSE LET spec_pos == table_field_table_pos(b, tpos, vt.v, 0) IN
    IF ~spec_pos.ok THEN spec_pos
    ELSE IF ~spec_pos.v.some THEN Ok(None)
    ELSE LET key == read_species_key(b, spec_pos.v.x) IN
    IF ~key.ok THEN key
    ELSE LET model_path == table_field_string(b, tpos, vt.v, 1) IN
    IF ~model_path.ok THEN model_path
    ELSE IF unwrap_or(model_path.v, <<>>) = <<>> THEN Ok(None)
    ELSE Ok(Some([key |-> key.v, model_path |-> model_path.v.x]))

RECURSIVE read_entries_loop(_, _, _, _)
push_out_reversed(b, entry_tables, i, out, e) ==
    IF ~e.ok THEN e
    ELSE read_entries_loop(b, entry_tables, i + 1,
             IF e.v.some THEN <<e.v.x>> \o out ELSE out)

push_out(b, entry_tables, i, out, e) ==
    IF ~e.ok THEN e
    ELSE read_entries_loop(b, entry_tables, i + 1,
             IF e.v.some THEN Append(out, e.v.x) ELSE out)

read_entries_loop(b, entry_tables, i, out) ==
    IF i > Len(entry_tables) THEN Ok(out)
    ELSE push_out(b, entry_tables, i, out,
                  read_entries_entry(b, entry_tables[i]))

read_entries(b) ==
    LET root == root_table_pos(b) IN
    IF ~root.ok THEN root
    ELSE LET root_vt == vtable_pos(b, root.v) IN
    IF ~root_vt.ok THEN root_vt
    ELSE LET entry_tables == table_field_vec_of_tables(b, root.v, root_vt.v, 1) IN
    IF ~entry_tables.ok THEN entry_tables
    ELSE IF ~entry_tables.v.some THEN Ok(<<>>)
    ELSE read_entries_loop(b, entry_tables.v.x, 1, <<>>)

(***************************************************************************)
(* trpmcatalog.rs: the Writer.  A writer is [b, ok, log]: b the bytes      *)
(* written so far, ok FALSE once patch_u32 or write_vtable has failed (the *)
(* code returns the error through ?, and write_doc then returns no         *)
(* buffer), and log the calls made so far, in the order they were made, of *)
(* the methods that start an object (write_table_header, write_string,     *)
(* write_vec_of_tables) or write into bytes already there (patch_u32,      *)
(* write_vtable).  Everything else the writer does appends to b.           *)
(***************************************************************************)
to_le_bytes_u16(v) == <<v % 256, (v \div 256) % 256>>

to_le_bytes_u32(v) ==
    <<v % 256, (v \div 256) % 256, (v \div 65536) % 256, (v \div 16777216) % 256>>

Zeros(k) == [i \in 1..k |-> 0]

(* b[at..at + bytes.len()].copy_from_slice(bytes), for a range inside b.   *)
copy_from_slice(b, at, bytes) ==
    [i \in 1..Len(b) |->
        IF i > at /\ i <= at + Len(bytes) THEN bytes[i - at] ELSE b[i]]

Writer_new == [b |-> <<>>, ok |-> TRUE, log |-> <<>>]

(* An entry of the log: the method, the position it wrote at or started    *)
(* at, the value it wrote or the position it returned, the 32 bits it      *)
(* found at the position (for patch_u32), and the length of the buffer     *)
(* when it was called.                                                     *)
Event(name, at, v, old, len) ==
    [op |-> name, at |-> at, v |-> v, old |-> old, len |-> len]

logged(w, e) == [w EXCEPT !.log = Append(@, e)]

align_none(w, n) == w

align(w, n) ==
    LET pad == (n - (Len(w.b) % n)) % n IN [w EXCEPT !.b = @ \o Zeros(pad)]

pos(w) == Len(w.b)

put_u8(w, v) == [w EXCEPT !.b = Append(@, v)]

put_u16(w, v) == [w EXCEPT !.b = @ \o to_le_bytes_u16(v)]

put_i16_clamped(w, v) == put_u16(w, Max(v, 0))

put_i16(w, v) == put_u16(w, as_u16(v))

put_u32(w, v) == [w EXCEPT !.b = @ \o to_le_bytes_u32(v)]

put_i32_negated(w, v) == [w EXCEPT !.b = @ \o to_le_bytes_u32(-v)]

put_i32(w, v) == [w EXCEPT !.b = @ \o to_le_bytes_u32(v)]

patch_u32(w, at, v) ==
    IF at + 4 > Len(w.b) THEN [w EXCEPT !.ok = FALSE]
    ELSE logged([w EXCEPT !.b = copy_from_slice(@, at, to_le_bytes_u32(v))],
                Event("patch_u32", at, v, read_u32(w.b, at).v, Len(w.b)))

(* let at = self.write_x(..)?; self.patch_u32(uoff_pos, (at - uoff_pos) as  *)
(* u32)?: r is [w, at], the writer after write_x and the position it gave. *)
patch_uoffset_absolute(r, uoff_pos) == patch_u32(r.w, uoff_pos, r.at)

patch_uoffset(r, uoff_pos) == patch_u32(r.w, uoff_pos, r.at - uoff_pos)

write_string_unterminated(w, s) ==
    LET w1 == logged(align(w, 4),
                     Event("write_string", pos(align(w, 4)), pos(align(w, 4)),
                           0, Len(w.b)))
        w2 == put_u32(w1, Len(s)) IN
    [w |-> [w2 EXCEPT !.b = @ \o s], at |-> pos(w1)]

write_string(w, s) ==
    LET w1 == logged(align(w, 4),
                     Event("write_string", pos(align(w, 4)), pos(align(w, 4)),
                           0, Len(w.b)))
        w2 == put_u32(w1, Len(s))
        w3 == [w2 EXCEPT !.b = @ \o s] IN
    [w |-> put_u8(w3, 0), at |-> pos(w1)]

write_table_header(w, vtable_len, obj_align) ==
    LET w1 == align(w, 2)
        w2 == [w1 EXCEPT !.b = @ \o Zeros(vtable_len)]
        pad == (obj_align - (pos(w2) % obj_align)) % obj_align
        w3 == [w2 EXCEPT !.b = @ \o Zeros(pad)] IN
    [w |-> logged(w3, Event("write_table_header", pos(w1), pos(w3), 0, Len(w.b))),
     vt_pos |-> pos(w1), obj_pos |-> pos(w3)]

RECURSIVE field_offset_bytes(_, _)
field_offset_bytes(field_offsets, i) ==
    IF i > Len(field_offsets) THEN <<>>
    ELSE to_le_bytes_u16(field_offsets[i]) \o field_offset_bytes(field_offsets, i + 1)

write_vtable_swapped(w, vt_pos, vtable_len, obj_len, field_offsets) ==
    IF vt_pos + vtable_len > Len(w.b) THEN [w EXCEPT !.ok = FALSE]
    ELSE logged([w EXCEPT !.b = copy_from_slice(@, vt_pos,
                     to_le_bytes_u16(obj_len) \o to_le_bytes_u16(vtable_len)
                         \o field_offset_bytes(field_offsets, 1))],
                Event("write_vtable", vt_pos, vtable_len, 0, Len(w.b)))

write_vtable(w, vt_pos, vtable_len, obj_len, field_offsets) ==
    IF vt_pos + vtable_len > Len(w.b) THEN [w EXCEPT !.ok = FALSE]
    ELSE logged([w EXCEPT !.b = copy_from_slice(@, vt_pos,
                     to_le_bytes_u16(vtable_len) \o to_le_bytes_u16(obj_len)
                         \o field_offset_bytes(field_offsets, 1))],
                Event("write_vtable", vt_pos, vtable_len, 0, Len(w.b)))

(* Each table writer is given in two parts: the writer, which fixes        *)
(* field_offsets and vtable_len and calls write_table_header, and the rest *)
(* of its body, an operator of the result h of that call.                  *)
species_info_table(h, field_offsets, vtable_len, key) ==
    LET w1 == put_i32(h.w, h.obj_pos - h.vt_pos)
        w2 == put_u16(w1, key.species)
        w3 == put_u16(w2, key.form)
        w4 == put_u8(w3, key.gender)
        w5 == put_u8(w4, 0)
        w6 == put_u16(w5, 0) IN
    [w |-> write_vtable(w6, h.vt_pos, vtable_len, 12, field_offsets),
     at |-> h.obj_pos]

write_species_info(w, key) ==
    LET field_offsets == <<4, 6, 8>>
        vtable_len == 4 + Len(field_offsets) * 2 IN
    species_info_table(write_table_header(w, vtable_len, 4),
                       field_offsets, vtable_len, key)

animation_info_table_unreserved(h, field_offsets, vtable_len, a) ==
    LET w1 == put_i32(h.w, h.obj_pos - h.vt_pos)
        w2 == put_i16(w1, a.form_number)
        w3 == put_u16(w2, 0)
        uoff_pos == pos(w3)
        w4 == put_u32(patch_u32(w3, uoff_pos, 4), 0)
        w5 == write_string(w4, a.path).w IN
    [w |-> write_vtable(w5, h.vt_pos, vtable_len, 12, field_offsets),
     at |-> h.obj_pos]

animation_info_table(h, field_offsets, vtable_len, a) ==
    LET w1 == put_i32(h.w, h.obj_pos - h.vt_pos)
        w2 == put_i16(w1, a.form_number)
        w3 == put_u16(w2, 0)
        uoff_pos == pos(w3)
        w4 == put_u32(w3, 0)
        w5 == patch_uoffset(write_string(w4, a.path), uoff_pos) IN
    [w |-> write_vtable(w5, h.vt_pos, vtable_len, 12, field_offsets),
     at |-> h.obj_pos]

write_animation_info(w, a) ==
    LET field_offsets == <<4, 8>>
        vtable_len == 4 + Len(field_offsets) * 2 IN
    animation_info_table(write_table_header(w, vtable_len, 4),
                         field_offsets, vtable_len, a)

locator_info_table(h, field_offsets, vtable_len, l) ==
    LET w1 == put_i32(h.w, h.obj_pos - h.vt_pos)
        w2 == put_i16(w1, l.form_number)
        w3 == put_u8(w2, l.loc_index)
        w4 == put_u8(w3, 0)
        uoff_pos == pos(w4)
        w5 == put_u32(w4, 0)
        w6 == patch_uoffset(write_string(w5, l.loc_path), uoff_pos) IN
    [w |-> write_vtable(w6, h.vt_pos, vtable_len, 12, field_offsets),
     at |-> h.obj_pos]

write_locator_info(w, l) ==
    LET field_offsets == <<4, 6, 8>>
        vtable_len == 4 + Len(field_offsets) * 2 IN
    locator_info_table(write_table_header(w, vtable_len, 4),
                       field_offsets, vtable_len, l)

(* write_vec_of_tables(n, write_elem): the closure write_elem is given by  *)
(* kind ("anim", "loc" or "entry") and the items it indexes.               *)
RECURSIVE write_vec_of_tables(_, _, _)

catalog_entry_table(h, field_offsets, vtable_len, e) ==
    LET w0 == put_i32(h.w, h.obj_pos - h.vt_pos)
        u_species == pos(w0)
        u_model == u_species + 4
        u_trmmt == u_model + 4
        u_cfg == u_trmmt + 4
        u_anims == u_cfg + 4
        u_locs == u_anims + 4
        u_icon == u_locs + 4
        w1 == put_u32(put_u32(put_u32(put_u32(put_u32(put_u32(put_u32(w0,
                  0), 0), 0), 0), 0), 0), 0)
        w2 == put_u32(w1, e.unk_id)
        u_def == pos(w2)
        w3 == put_u32(w2, 0)
        w4 == patch_uoffset(write_species_info(w3, e.key), u_species)
        w5 == patch_uoffset(write_string(w4, e.model_path), u_model)
        w6 == patch_uoffset(write_string(w5, e.material_table_path), u_trmmt)
        w7 == patch_uoffset(write_string(w6, e.config_path), u_cfg)
        w8 == patch_uoffset(write_vec_of_tables(w7, "anim", e.animations), u_anims)
        w9 == patch_uoffset(write_vec_of_tables(w8, "loc", e.locators), u_locs)
        w10 == patch_uoffset(write_string(w9, e.icon_path), u_icon)
        w11 == patch_uoffset(write_string(w10, e.defence_path), u_def) IN
    [w |-> write_vtable(w11, h.vt_pos, vtable_len, 40, field_offsets),
     at |-> h.obj_pos]

write_catalog_entry(w, e) ==
    LET field_offsets == <<4, 8, 12, 16, 20, 24, 28, 32, 36>>
        vtable_len == 4 + Len(field_offsets) * 2 IN
    catalog_entry_table(write_table_header(w, vtable_len, 4),
                        field_offsets, vtable_len, e)

write_elem(w, kind, item) ==
    IF kind = "anim" THEN write_animation_info(w, item)
    ELSE IF kind = "loc" THEN write_locator_info(w, item)
    ELSE write_catalog_entry(w, item)

(* The second loop of write_vec_of_tables: element i is written at the     *)
(* tail and its offset patched into slot i, at vec_pos + 4 + 4 * (i - 1).  *)
RECURSIVE write_vec_elems(_, _, _, _, _)
write_vec_elems(w, kind, items, vec_pos, i) ==
    IF i > Len(items) THEN w
    ELSE write_vec_elems(
             patch_uoffset(write_elem(w, kind, items[i]), vec_pos + 4 + 4 * (i - 1)),
             kind, items, vec_pos, i + 1)

write_vec_of_tables(w, kind, items) ==
    LET w1 == logged(align(w, 4),
                     Event("write_vec_of_tables", pos(align(w, 4)),
                           pos(align(w, 4)), 0, Len(w.b)))
        vec_pos == pos(w1)
        w2 == put_u32(w1, Len(items))
        w3 == [w2 EXCEPT !.b = @ \o Zeros(4 * Len(items))] IN
    [w |-> write_vec_elems(w3, kind, items, vec_pos, 1), at |-> vec_pos]

version_info_table(h, field_offsets, vtable_len, version) ==
    LET w1 == put_i32(h.w, h.obj_pos - h.vt_pos)
        w2 == put_u32(w1, version) IN
    [w |-> write_vtable(w2, h.vt_pos, vtable_len, 8, field_offsets),
     at |-> h.obj_pos]

write_version_info(w, version) ==
    LET field_offsets == <<4>>
        vtable_len == 4 + Len(field_offsets) * 2 IN
    version_info_table(write_table_header(w, vtable_len, 4),
                       field_offsets, vtable_len, version)

(* Ok(std::mem::take(&mut self.b)) at the end of write_catalog, unless a ?  *)
(* of the writer has returned its error.                                   *)
finish(w) == IF w.ok THEN Ok(w.b) ELSE Err("patch")

catalog_table(h, root_uoff_pos, field_offsets, vtable_len, d) ==
    LET w2 == put_i32(h.w, h.obj_pos - h.vt_pos)
        u_version == pos(w2)
        w3 == put_u32(w2, 0)
        u_table == pos(w3)
        w4 == put_u32(w3, 0)
        w5 == write_vtable(w4, h.vt_pos, vtable_len, 12, field_offsets)
        w6 == patch_u32(w5, root_uoff_pos, h.obj_pos - root_uoff_pos)
        w7 == patch_uoffset(write_version_info(w6, d.version), u_version)
        w8 == patch_uoffset(write_vec_of_tables(w7, "entry", d.entries), u_table) IN
    w8

write_catalog(w, d) ==
    LET w0 == align(w, 4)
        root_uoff_pos == pos(w0)
        w1 == put_u32(w0, 0)
        field_offsets == <<4, 8>>
        vtable_len == 4 + Len(field_offsets) * 2 IN
    catalog_table(write_table_header(w1, vtable_len, 4),
                  root_uoff_pos, field_offsets, vtable_len, d)

write_doc(d) == finish(write_catalog(Writer_new, d))

(***************************************************************************)
(* The in-place patchers.  A patcher works on fb, the copy of the buffer   *)
(* taken at entry (FbBuf::new(buf.to_vec())), and writes to the caller's   *)
(* buffer; it yields [r, b]: the Result it returns and the caller's buffer *)
(* as the call leaves it.  An index expression buf[a..b] of the code whose *)
(* range is not inside the buffer panics.                                  *)
(***************************************************************************)
Panic == [ok |-> FALSE, v |-> 0, err |-> "panic", alloc |-> 0]

slice_in_bounds(b, from, to) == from <= to /\ to <= Len(b)

ends_with_loose(s, suffix) == Len(s) >= Len(suffix)

ends_with(s, suffix) ==
    /\ Len(s) >= Len(suffix)
    /\ SubSeq(s, Len(s) - Len(suffix) + 1, Len(s)) = suffix

(* ".tralk" *)
TralkSuffix == <<46, 116, 114, 97, 108, 107>>

fill_zero(b, from, to) ==
    [i \in 1..Len(b) |-> IF i > from /\ i <= to THEN 0 ELSE b[i]]

(* tracn.rs: one pass of the loop over entries.  r is Ok(1) when the       *)
(* string was zeroed, Ok(0) where the code says continue.                  *)
strip_entry_shrinking(fb, live, epos) ==
    LET evt == vtable_pos(fb, epos) IN
    IF ~evt.ok THEN [r |-> evt, b |-> live]
    ELSE LET loc == table_field_string_loc(fb, epos, evt.v, 1) IN
    IF ~loc.ok THEN [r |-> loc, b |-> live]
    ELSE IF ~loc.v.some THEN [r |-> Ok(0), b |-> live]
    ELSE LET bytes_pos == loc.v.x.bytes_pos
             end == bytes_pos + loc.v.x.len IN
    IF end > Len(live) THEN [r |-> Ok(0), b |-> live]
    ELSE IF ~ends_with(from_utf8_lossy(SubSeq(live, bytes_pos + 1, end)), TralkSuffix)
    THEN [r |-> Ok(0), b |-> live]
    ELSE [r |-> Ok(1),
          b |-> SubSeq(live, 1, bytes_pos) \o SubSeq(live, end + 1, Len(live))]

strip_entry_snapshot(fb, live, epos) ==
    LET evt == vtable_pos(fb, epos) IN
    IF ~evt.ok THEN [r |-> evt, b |-> live]
    ELSE LET loc == table_field_string_loc(fb, epos, evt.v, 1) IN
    IF ~loc.ok THEN [r |-> loc, b |-> live]
    ELSE IF ~loc.v.some THEN [r |-> Ok(0), b |-> live]
    ELSE LET bytes_pos == loc.v.x.bytes_pos
             end == bytes_pos + loc.v.x.len
             len_pos == loc.v.x.len_pos IN
    IF end > Len(live) THEN [r |-> Ok(0), b |-> live]
    ELSE IF ~slice_in_bounds(live, bytes_pos, end) THEN [r |-> Panic, b |-> live]
    ELSE IF ~ends_with(from_utf8_lossy(SubSeq(fb, bytes_pos + 1, end)), TralkSuffix)
    THEN [r |-> Ok(0), b |-> live]
    ELSE LET zeroed == fill_zero(live, bytes_pos, end) IN
         [r |-> Ok(1),
          b |-> IF len_pos + 4 <= Len(zeroed)
                THEN copy_from_slice(zeroed, len_pos, to_le_bytes_u32(0))
                ELSE zeroed]

strip_entry(fb, live, epos) ==
    LET evt == vtable_pos(fb, epos) IN
    IF ~evt.ok THEN [r |-> evt, b |-> live]
    ELSE LET loc == table_field_string_loc(fb, epos, evt.v, 1) IN
    IF ~loc.ok THEN [r |-> loc, b |-> live]
    ELSE IF ~loc.v.some THEN [r |-> Ok(0), b |-> live]
    ELSE LET bytes_pos == loc.v.x.bytes_pos
             end == bytes_pos + loc.v.x.len
             len_pos == loc.v.x.len_pos IN
    IF end > Len(live) THEN [r |-> Ok(0), b |-> live]
    ELSE IF ~slice_in_bounds(live, bytes_pos, end) THEN [r |-> Panic, b |-> live]
    ELSE IF ~ends_with(from_utf8_lossy(SubSeq(live, bytes_pos + 1, end)), TralkSuffix)
    THEN [r |-> Ok(0), b |-> live]
    ELSE LET zeroed == fill_zero(live, bytes_pos, end) IN
         [r |-> Ok(1),
          b |-> IF len_pos + 4 <= Len(zeroed)
                THEN copy_from_slice(zeroed, len_pos, to_le_bytes_u32(0))
                ELSE zeroed]

(* The loop over entries from its i-th pass on; strip_next is the end of  *)
(* a pass whose outcome is e.                                              *)
RECURSIVE strip_loop(_, _, _, _, _)
strip_next(fb, entries, i, changed, e) ==
    IF ~e.r.ok THEN e
    ELSE strip_loop(fb, e.b, entries, i + 1, changed + e.r.v)

strip_loop(fb, live, entries, i, changed) ==
    IF i > Len(entries) THEN [r |-> Ok(changed), b |-> live]
    ELSE strip_next(fb, entries, i, changed, strip_entry(fb, live, entries[i]))

strip_tralk_filenames_strict(b) ==
    LET root == root_table_pos(b) IN
    IF ~root.ok THEN [r |-> root, b |-> b]
    ELSE LET root_vt == vtable_pos(b, root.v) IN
    IF ~root_vt.ok THEN [r |-> root_vt, b |-> b]
    ELSE LET entries == table_field_vec_of_tables(b, root.v, root_vt.v, 0) IN
    IF ~entries.ok THEN [r |-> entries, b |-> b]
    ELSE IF ~entries.v.some THEN [r |-> Err("absent"), b |-> b]
    ELSE strip_loop(b, b, entries.v.x, 1, 0)

strip_tralk_filenames_in_place(b) ==
    LET root == root_table_pos(b) IN
    IF ~root.ok THEN [r |-> root, b |-> b]
    ELSE LET root_vt == vtable_pos(b, root.v) IN
    IF ~root_vt.ok THEN [r |-> root_vt, b |-> b]
    ELSE LET entries == table_field_vec_of_tables(b, root.v, root_vt.v, 0) IN
    IF ~entries.ok THEN [r |-> entries, b |-> b]
    ELSE IF ~entries.v.some THEN [r |-> Ok(0), b |-> b]
    ELSE strip_loop(b, b, entries.v.x, 1, 0)

(* tralk.rs *)
(* "head" *)
HeadName == <<104, 101, 97, 100>>

(* v.to_bits().to_le_bytes() of the two f32 values the patcher writes:     *)
(* 0.0 is 0x00000000 and 0.001 is 0x3A83126F.                              *)
f32_be_bytes(v) == IF v = "0.001" THEN <<58, 131, 18, 111>> ELSE <<0, 0, 0, 0>>

f32_le_bytes(v) == IF v = "0.001" THEN <<111, 18, 131, 58>> ELSE <<0, 0, 0, 0>>

write_f32_wide(b, at, v) ==
    IF at + 4 > Len(b) THEN [r |-> Err("oob"), b |-> b]
    ELSE [r |-> Ok(0), b |-> copy_from_slice(b, at, f32_le_bytes(v) \o <<0, 0, 0, 0>>)]

write_f32_accumulating(b, at, v) ==
    IF at + 4 > Len(b) THEN [r |-> Err("oob"), b |-> b]
    ELSE [r |-> Ok(0),
          b |-> copy_from_slice(b, at,
                    [k \in 1..4 |-> (b[at + k] + f32_le_bytes(v)[k]) % 256])]

write_f32(b, at, v) ==
    IF at + 4 > Len(b) THEN [r |-> Err("oob"), b |-> b]
    ELSE [r |-> Ok(0), b |-> copy_from_slice(b, at, f32_le_bytes(v))]

(* for i in 0..n { at = vec_pos + 4 + i * 4; if at + 4 > len { break } ... } *)
RECURSIVE zero_rotation_weights(_, _, _, _)
zero_rotation_weights(live, vec_pos, n, i) ==
    IF i >= n THEN [r |-> Ok(0), b |-> live]
    ELSE LET at == vec_pos + 4 + i * 4 IN
         IF at + 4 > Len(live) THEN [r |-> Ok(0), b |-> live]
         ELSE LET w == write_f32(live, at, "0.0") IN
              IF ~w.r.ok THEN w
              ELSE zero_rotation_weights(w.b, vec_pos, n, i + 1)

(* for field in 8..=13 *)
RECURSIVE patch_float_fields(_, _, _, _, _)
patch_float_fields(fb, live, gpos, gvt, field) ==
    IF field > 13 THEN [r |-> Ok(0), b |-> live]
    ELSE LET loc == table_field_loc(fb, gpos, gvt, field) IN
         IF ~loc.ok THEN [r |-> loc, b |-> live]
         ELSE IF ~loc.v.some THEN patch_float_fields(fb, live, gpos, gvt, field + 1)
         ELSE LET w == write_f32(live, loc.v.x, "0.001") IN
              IF ~w.r.ok THEN w
              ELSE patch_float_fields(fb, w.b, gpos, gvt, field + 1)

(* One pass of the loop over groups: r is Ok(1) when the pass reaches      *)
(* changed += 1, Ok(0) where the code says continue.                       *)
patch_group(fb, live, gpos) ==
    LET gvt == vtable_pos(fb, gpos) IN
    IF ~gvt.ok THEN [r |-> gvt, b |-> live]
    ELSE LET name == table_field_string(fb, gpos, gvt.v, 0) IN
    IF ~name.ok THEN [r |-> name, b |-> live]
    ELSE IF unwrap_or(name.v, <<>>) # HeadName THEN [r |-> Ok(0), b |-> live]
    ELSE LET look_at_type == table_field_scalar_u32(fb, gpos, gvt.v, 4) IN
    IF ~look_at_type.ok THEN [r |-> look_at_type, b |-> live]
    ELSE IF unwrap_or(look_at_type.v, 0) # 0 THEN [r |-> Ok(0), b |-> live]
    ELSE LET vec_pos == table_field_vec_pos(fb, gpos, gvt.v, 23) IN
    IF ~vec_pos.ok THEN [r |-> vec_pos, b |-> live]
    ELSE LET a3 == IF vec_pos.v.some /\ vec_pos.v.x + 4 <= Len(live)
                   THEN zero_rotation_weights(live, vec_pos.v.x,
                            read_u32(live, vec_pos.v.x).v, 0)
                   ELSE [r |-> Ok(0), b |-> live] IN
    IF ~a3.r.ok THEN a3
    ELSE LET floats == patch_float_fields(fb, a3.b, gpos, gvt.v, 8) IN
    IF ~floats.r.ok THEN floats
    ELSE LET loc == table_field_loc(fb, gpos, gvt.v, 15) IN
    IF ~loc.ok THEN [r |-> loc, b |-> floats.b]
    ELSE [r |-> Ok(1),
          b |-> IF loc.v.some /\ loc.v.x < Len(floats.b)
                THEN copy_from_slice(floats.b, loc.v.x, <<0>>)
                ELSE floats.b]

(* The loop over groups from its i-th pass on; patch_next is the end of a  *)
(* pass whose outcome is g.                                                *)
RECURSIVE patch_loop(_, _, _, _, _)
patch_next(fb, groups, i, changed, g) ==
    IF ~g.r.ok THEN g
    ELSE patch_loop(fb, g.b, groups, i + 1, changed + g.r.v)

patch_loop(fb, live, groups, i, changed) ==
    IF i > Len(groups) THEN [r |-> Ok(changed), b |-> live]
    ELSE patch_next(fb, groups, i, changed, patch_group(fb, live, groups[i]))

patch_no_head_joint_rotation_in_place(b) ==
    LET root == root_table_pos(b) IN
    IF ~root.ok THEN [r |-> root, b |-> b]
    ELSE LET root_vt == vtable_pos(b, root.v) IN
    IF ~root_vt.ok THEN [r |-> root_vt, b |-> b]
    ELSE LET groups == table_field_vec_of_tables(b, root.v, root_vt.v, 4) IN
    IF ~groups.ok THEN [r |-> groups, b |-> b]
    ELSE IF ~groups.v.some THEN [r |-> Ok(0), b |-> b]
    ELSE patch_loop(b, b, groups.v.x, 1, 0)

(***************************************************************************)
(* Vec::with_capacity(n) in table_field_vec_of_tables asks for n elements  *)
(* before any of the n slots has been looked at.  A request so large that  *)
(* n reads as Huge (2^30 elements, 8 GiB of usize, or more) may be refused *)
(* by the allocator, and the process then aborts instead of returning: the *)
(* call ends either way.                                                   *)
(***************************************************************************)
Aborted == [ok |-> FALSE, v |-> 0, err |-> "abort", alloc |-> Huge]

Outcomes(r) == IF ~r.ok /\ r.alloc >= Huge THEN {r, Aborted} ELSE {r}

(***************************************************************************)
(* Catalog documents the encoder is run on.                                *)
(***************************************************************************)
MaxEntries == 2

SeqsUpTo(S, n) == UNION {[1..k -> S] : k \in 0..n}

Versions == {0, 66051}

(* "pm0025/pm0025_00_00/pm0025_00_00.trmdl" *)
StrModelPath ==
    <<112, 109, 48, 48, 50, 53, 47, 112, 109, 48, 48, 50, 53, 95, 48, 48, 95,
      48, 48, 47, 112, 109, 48, 48, 50, 53, 95, 48, 48, 95, 48, 48, 46, 116,
      114, 109, 100, 108>>

(* "pm0025_00_00.tracn" *)
StrAnimPath ==
    <<112, 109, 48, 48, 50, 53, 95, 48, 48, 95, 48, 48, 46, 116, 114, 97, 99, 110>>

EntryEmpty ==
    [key |-> [species |-> 0, form |-> 0, gender |-> 0],
     model_path |-> <<>>, material_table_path |-> <<>>, config_path |-> <<>>,
     animations |-> <<>>, locators |-> <<>>,
     icon_path |-> <<>>, unk_id |-> 0, defence_path |-> <<>>]

EntryScenario ==
    [EntryEmpty EXCEPT
        !.key = [species |-> 25, form |-> 0, gender |-> 0],
        !.model_path = StrModelPath,
        !.animations = <<[form_number |-> 0, path |-> StrAnimPath]>>]

EntryFull ==
    [key |-> [species |-> 65535, form |-> 65535, gender |-> 255],
     model_path |-> <<99, 46, 116, 114, 109, 100, 108>>,
     material_table_path |-> <<112, 109>>,
     config_path |-> <<195, 169>>,
     animations |-> <<[form_number |-> -32768, path |-> <<97>>],
                      [form_number |-> 32767, path |-> <<>>]>>,
     locators |-> <<[form_number |-> -1, loc_index |-> 255, loc_path |-> <<100>>],
                    [form_number |-> 1, loc_index |-> 0,
                     loc_path |-> <<112, 109, 46, 116, 114, 109, 109, 116>>]>>,
     icon_path |-> <<100, 0, 100>>,
     unk_id |-> 1073741823,
     defence_path |-> <<105, 99, 111, 110>>]

EntryAnim ==
    [EntryEmpty EXCEPT
        !.key = [species |-> 1, form |-> 2, gender |-> 1],
        !.animations = <<[form_number |-> -1, path |-> <<>>]>>,
        !.icon_path = <<105, 99, 111, 110>>,
        !.unk_id = 1]

EntryLoc ==
    [EntryEmpty EXCEPT
        !.key = [species |-> 0, form |-> 1, gender |-> 0],
        !.model_path = <<100>>,
        !.locators = <<[form_number |-> 0, loc_index |-> 7, loc_path |-> <<>>]>>,
        !.defence_path = <<100>>]

EntryPaths ==
    [EntryEmpty EXCEPT
        !.key = [species |-> 25, form |-> 1, gender |-> 2],
        !.model_path = <<99, 46, 116, 114, 109, 100, 108>>,
        !.material_table_path = <<112, 109, 46, 116, 114, 109, 109, 116>>,
        !.config_path = <<100, 100, 100, 100, 100>>,
        !.unk_id = 256]

EntrySet == {EntryEmpty, EntryScenario, EntryFull, EntryAnim, EntryLoc, EntryPaths}

Docs == {[version |-> v, entries |-> es] :
            v \in Versions, es \in SeqsUpTo(EntrySet, MaxEntries)}

DocNone == [version |-> 0, entries |-> <<>>]

(***************************************************************************)
(* SpecCodec: a document is encoded by write_doc and the bytes are decoded *)
(* by read_doc.                                                            *)
(***************************************************************************)
InitCodec ==
    /\ doc \in Docs
    /\ buf = <<>>
    /\ buf0 = <<>>
    /\ pc = "doc"
    /\ op = "none"
    /\ arg = <<>>
    /\ res = Ok(0)
    /\ log = <<>>

WriteDoc ==
    /\ pc = "doc"
    /\ LET r == write_doc(doc) IN
        /\ res' = r
        /\ buf' = IF r.ok THEN r.v ELSE <<>>
    /\ log' = write_catalog(Writer_new, doc).log
    /\ pc' = "written"
    /\ op' = "write_doc"
    /\ UNCHANGED <<buf0, doc, arg>>

ReadBack ==
    /\ pc = "written"
    /\ res.ok
    /\ res' = read_doc(buf)
    /\ pc' = "read"
    /\ op' = "read_doc"
    /\ UNCHANGED <<buf, buf0, doc, arg, log>>

NextCodec == WriteDoc \/ ReadBack

SpecCodec == InitCodec /\ [][NextCodec]_vars

(* C1: decoding the bytes write_doc produced for a document succeeds and   *)
(* gives back that document: the same version and the same entries, field  *)
(* by field, in the same order and number.                                 *)
C1_RoundTrip ==
    /\ pc = "written" => res.ok
    /\ pc = "read" => res.ok /\ res.v = doc

C1_Witness ==
    /\ pc = "read"
    /\ res.ok
    /\ Len(doc.entries) = 2
    /\ doc.entries[1] # doc.entries[2]
    /\ \E i \in 1..2 : Len(doc.entries[i].animations) = 2
    /\ \E i \in 1..2 : doc.entries[i].locators = <<>>
    /\ \E i \in 1..2 : doc.entries[i].model_path = <<>>

(***************************************************************************)
(* Input buffers.  Prefixes(b) are the truncations of b and SetByte        *)
(* corrupts one byte of it.                                                *)
(***************************************************************************)
Prefixes(b) == {SubSeq(b, 1, k) : k \in 0..Len(b)}

SetByte(b, p, v) == [b EXCEPT ![p + 1] = v]

(***************************************************************************)
(* NavBase: a 58 byte buffer in the layout FbBuf navigates.                *)
(*    0  root offset 12                                                    *)
(*    4  vtable of the root table: length 8, object length 12, field 0 at  *)
(*       +4, field 1 at +8                                                 *)
(*   12  root table: soffset 8; +4 offset 8 to the vector at 24; +8 offset *)
(*       20 to the string at 40                                            *)
(*   24  vector of tables: count 3; slots at 28, 32, 36 holding 20 (the    *)
(*       table at 48), 0 (a hole) and 12 (the table at 48)                 *)
(*   40  string: length 2, "hi", terminator, padding                       *)
(*   48  element table: soffset -4                                         *)
(*   52  vtable of the element table: length 6, object length 4, field 0   *)
(*       absent                                                            *)
(***************************************************************************)
NavBase ==
    <<12, 0, 0, 0, 8, 0, 12, 0, 4, 0, 8, 0, 8, 0, 0, 0, 8, 0, 0, 0, 20, 0,
      0, 0, 3, 0, 0, 0, 20, 0, 0, 0, 0, 0, 0, 0, 12, 0, 0, 0, 2, 0, 0, 0,
      104, 105, 0, 0, 252, 255, 255, 255, 6, 0, 4, 0, 0, 0>>

NavCorpus ==
    Prefixes(NavBase) \cup
    {SetByte(NavBase, 0, 57), SetByte(NavBase, 0, 58),
     SetByte(NavBase, 1, 1), SetByte(NavBase, 3, 255)}

MaxField == 2

(* The vtable positions an accessor is called with for the table at tp:    *)
(* the one vtable_pos gives for tp, and the two vtables of NavBase.        *)
NavVts(b, tp) ==
    {4, 52} \cup (IF vtable_pos(b, tp).ok THEN {vtable_pos(b, tp).v} ELSE {})

(***************************************************************************)
(* SpecNav: the navigator's methods called on a buffer, at any table       *)
(* position of it, for the field indices 0..MaxField.  op, arg and res are *)
(* the method called, its arguments and its result.                        *)
(***************************************************************************)
InitNav ==
    /\ buf \in NavCorpus
    /\ buf0 = buf
    /\ doc = DocNone
    /\ pc = "nav"
    /\ op = "none"
    /\ arg = <<>>
    /\ res = Ok(0)
    /\ log = <<>>

NavCall(name, a, r) ==
    /\ pc' = "called"
    /\ op' = name
    /\ arg' = a
    /\ res' = r
    /\ UNCHANGED <<buf, buf0, doc, log>>

NavRoot ==
    /\ pc = "nav"
    /\ NavCall("root_table_pos", <<>>, root_table_pos(buf))

NavVtable ==
    /\ pc = "nav"
    /\ \E tp \in 0..Len(buf) :
           NavCall("vtable_pos", <<tp>>, vtable_pos(buf, tp))

NavFieldOffset ==
    /\ pc = "nav"
    /\ \E vt \in 0..Len(buf), i \in 0..MaxField :
           NavCall("field_offset", <<vt, i>>, field_offset(buf, vt, i))

NavTablePos ==
    /\ pc = "nav"
    /\ \E tp \in 0..Len(buf), i \in 0..MaxField : \E vt \in NavVts(buf, tp) :
           NavCall("table_field_table_pos", <<tp, vt, i>>,
                   table_field_table_pos(buf, tp, vt, i))

NavStringLoc ==
    /\ pc = "nav"
    /\ \E tp \in 0..Len(buf), i \in 0..MaxField : \E vt \in NavVts(buf, tp) :
           NavCall("table_field_string_loc", <<tp, vt, i>>,
                   table_field_string_loc(buf, tp, vt, i))

NavString ==
    /\ pc = "nav"
    /\ \E tp \in 0..Len(buf), i \in 0..MaxField : \E vt \in NavVts(buf, tp) :
           NavCall("table_field_string", <<tp, vt, i>>,
                   table_field_string(buf, tp, vt, i))

NavVecOfTables ==
    /\ pc = "nav"
    /\ \E tp \in 0..Len(buf), i \in 0..MaxField : \E vt \in NavVts(buf, tp) :
           NavCall("table_field_vec_of_tables", <<tp, vt, i>>,
                   table_field_vec_of_tables(buf, tp, vt, i))

NavVecPos ==
    /\ pc = "nav"
    /\ \E tp \in 0..Len(buf), i \in 0..MaxField : \E vt \in NavVts(buf, tp) :
           NavCall("table_field_vec_pos", <<tp, vt, i>>,
                   table_field_vec_pos(buf, tp, vt, i))

NavReadU8 ==
    /\ pc = "nav"
    /\ \E p \in 0..(Len(buf) + 1) : NavCall("read_u8", <<p>>, read_u8(buf, p))

NavReadU16 ==
    /\ pc = "nav"
    /\ \E p \in 0..(Len(buf) + 1) : NavCall("read_u16", <<p>>, read_u16(buf, p))

NavReadU32 ==
    /\ pc = "nav"
    /\ \E p \in 0..(Len(buf) + 1) : NavCall("read_u32", <<p>>, read_u32(buf, p))

NavReadI32 ==
    /\ pc = "nav"
    /\ \E p \in 0..(Len(buf) + 1) : NavCall("read_i32", <<p>>, read_i32(buf, p))

NextNav ==
    \/ NavReadU8
    \/ NavReadU16
    \/ NavReadU32
    \/ NavReadI32
    \/ NavRoot
    \/ NavVtable
    \/ NavFieldOffset
    \/ NavTablePos
    \/ NavStringLoc
    \/ NavString
    \/ NavVecOfTables
    \/ NavVecPos

SpecNav == InitNav /\ [][NextNav]_vars

(***************************************************************************)
(* What the buffer holds, read byte by byte, for the statements about the  *)
(* navigator.                                                              *)
(***************************************************************************)
U16At(b, p) == b[p + 1] + 256 * b[p + 2]

U32At(b, p) ==
    IF b[p + 4] >= 64 THEN Huge
    ELSE b[p + 1] + 256 * b[p + 2] + 65536 * b[p + 3] + 16777216 * b[p + 4]

I32At(b, p) ==
    b[p + 1] + 256 * b[p + 2] + 65536 * b[p + 3]
    + 16777216 * (IF b[p + 4] >= 128 THEN b[p + 4] - 256 ELSE b[p + 4])

(* C6: where the length L of the vtable can be read, a field whose slot at *)
(* 4 + 2*i is not inside the first L bytes of the vtable is Ok(0), and any *)
(* other field is the 16 bit value stored at vtable_pos + 4 + 2*i.         *)
C6_FieldOffset_Original ==
    op = "field_offset" =>
        LET vt == arg[1]
            i == arg[2] IN
        vt + 2 <= Len(buf) =>
            IF 4 + 2 * i + 2 > U16At(buf, vt) THEN res = Ok(0)
            ELSE /\ res.ok
                 /\ vt + 4 + 2 * i + 2 <= Len(buf)
                 /\ res.v = U16At(buf, vt + 4 + 2 * i)

(* C6, amended: as above while the slot lies inside the buffer; a slot     *)
(* inside the first L bytes of the vtable but past the end of the buffer   *)
(* is an out-of-bounds error.                                              *)
C6_FieldOffset ==
    op = "field_offset" =>
        LET vt == arg[1]
            i == arg[2] IN
        vt + 2 <= Len(buf) =>
            IF 4 + 2 * i + 2 > U16At(buf, vt) THEN res = Ok(0)
            ELSE IF vt + 4 + 2 * i + 2 <= Len(buf)
                 THEN res = Ok(U16At(buf, vt + 4 + 2 * i))
                 ELSE ~res.ok /\ res.err = "oob"

C6_Witness ==
    /\ op = "field_offset"
    /\ arg = <<4, 2>>
    /\ Len(buf) = 58
    /\ U16At(buf, 4) = 8
    /\ res = Ok(0)

(* C7: vtable_pos is table_pos minus the signed delta stored at table_pos; *)
(* it is an underflow error when that is negative and an out-of-bounds     *)
(* error when that is not inside the buffer, so an Ok result is a position *)
(* inside the buffer.                                                      *)
C7_VtablePos ==
    op = "vtable_pos" =>
        LET tp == arg[1] IN
        tp + 4 <= Len(buf) =>
            LET vt == tp - Max(I32At(buf, tp), -Huge) IN
            IF vt < 0 THEN ~res.ok /\ res.err = "underflow"
            ELSE IF vt >= Len(buf) THEN ~res.ok /\ res.err = "oob"
            ELSE res = Ok(vt)

(* C8: root_table_pos is the 32 bit value stored at byte 0 when that value *)
(* is less than the buffer length, and fails otherwise, also on a buffer   *)
(* of fewer than 4 bytes.                                                  *)
C8_RootTablePos ==
    op = "root_table_pos" =>
        IF Len(buf) >= 4 /\ U32At(buf, 0) < Len(buf)
        THEN res = Ok(U32At(buf, 0))
        ELSE ~res.ok

C8_Witness ==
    /\ op = "root_table_pos"
    /\ Len(buf) = 58
    /\ res = Ok(57)

(* The vector a field of a table leads to: where it is, its count and its  *)
(* slots, when the field is present and all of that can be read.           *)
VecAt(b, tp, vt, i) ==
    LET fo == field_offset(b, vt, i) IN
    IF ~fo.ok \/ fo.v = 0 \/ tp + fo.v + 4 > Len(b)
    THEN [present |-> FALSE, pos |-> 0, n |-> 0]
    ELSE LET vec_pos == tp + fo.v + U32At(b, tp + fo.v) IN
         IF U32At(b, tp + fo.v) = 0 \/ vec_pos + 4 > Len(b)
            \/ U32At(b, vec_pos) >= Len(b)
            \/ vec_pos + 4 + 4 * U32At(b, vec_pos) > Len(b)
         THEN [present |-> FALSE, pos |-> 0, n |-> 0]
         ELSE [present |-> TRUE, pos |-> vec_pos, n |-> U32At(b, vec_pos)]

(* slot_position + offset of the slots of the vector whose offset is not 0 *)
SlotTargets(b, vec) ==
    LET slot(k) == vec.pos + 4 + 4 * (k - 1)
        filled == SelectSeq([k \in 1..vec.n |-> slot(k)],
                            LAMBDA q : U32At(b, q) # 0) IN
    [k \in 1..Len(filled) |-> filled[k] + U32At(b, filled[k])]

(* C9: for a present vector whose n slots can all be read, the result of   *)
(* table_field_vec_of_tables is the list, in slot order, of slot position  *)
(* + offset of the slots whose offset is not 0, each less than the buffer  *)
(* length; a slot holding 0 gives no error and no element.                 *)
C9_VecOfTables_Original ==
    op = "table_field_vec_of_tables" =>
        LET vec == VecAt(buf, arg[1], arg[2], arg[3]) IN
        vec.present =>
            /\ res.ok
            /\ res.v = Some(SlotTargets(buf, vec))
            /\ \A k \in 1..Len(res.v.x) : res.v.x[k] < Len(buf)

(* C9, amended: that list is the result when every position in it is less *)
(* than the buffer length; when one is not, the result is an out-of-bounds *)
(* error.                                                                  *)
C9_VecOfTables ==
    op = "table_field_vec_of_tables" =>
        LET vec == VecAt(buf, arg[1], arg[2], arg[3])
            want == SlotTargets(buf, vec) IN
        vec.present =>
            IF \A k \in 1..Len(want) : want[k] < Len(buf)
            THEN res.ok /\ res.v = Some(want)
            ELSE ~res.ok /\ res.err = "oob"

C9_Witness ==
    /\ op = "table_field_vec_of_tables"
    /\ arg = <<12, 4, 0>>
    /\ VecAt(buf, 12, 4, 0).n = 3
    /\ U32At(buf, 32) = 0
    /\ res.ok
    /\ res.v = Some(<<48, 48>>)

(* C10: an indirect accessor gives absent when the slot offset of the      *)
(* field is 0, and its Ok result never names a target outside the buffer:  *)
(* a table, a vector or a string position is less than the buffer length   *)
(* and the content span of a string ends inside the buffer.                *)
C10_IndirectAccessors ==
    op \in {"table_field_table_pos", "table_field_string_loc",
            "table_field_string", "table_field_vec_of_tables",
            "table_field_vec_pos"} =>
        /\ field_offset(buf, arg[2], arg[3]) = Ok(0) => res.ok /\ res.v = None
        /\ res.ok /\ res.v.some =>
            /\ op \in {"table_field_table_pos", "table_field_vec_pos"} =>
                   res.v.x < Len(buf)
            /\ op = "table_field_string_loc" =>
                   /\ res.v.x.len_pos + 4 <= Len(buf)
                   /\ res.v.x.bytes_pos + res.v.x.len <= Len(buf)
            /\ op = "table_field_vec_of_tables" =>
                   \A k \in 1..Len(res.v.x) : res.v.x[k] < Len(buf)

(* C11: read_u8, read_u16 and read_u32 at pos succeed exactly when the 1,  *)
(* 2 or 4 bytes from pos lie inside the buffer, and then give the little-  *)
(* endian unsigned value of those bytes (a 32 bit value of 2^30 or more is *)
(* read as at least 2^30, never as a smaller number); read_i32 succeeds    *)
(* where read_u32 does and gives the same 32 bits as a signed number.      *)
C11_ReadPrimitives ==
    /\ op = "read_u8" =>
           IF arg[1] + 1 <= Len(buf) THEN res = Ok(buf[arg[1] + 1]) ELSE ~res.ok
    /\ op = "read_u16" =>
           IF arg[1] + 2 <= Len(buf) THEN res = Ok(U16At(buf, arg[1])) ELSE ~res.ok
    /\ op = "read_u32" =>
           IF arg[1] + 4 <= Len(buf) THEN res = Ok(U32At(buf, arg[1])) ELSE ~res.ok
    /\ op = "read_i32" =>
           IF arg[1] + 4 <= Len(buf)
           THEN /\ res = Ok(I32At(buf, arg[1]))
                /\ res.ok = read_u32(buf, arg[1]).ok
                /\ read_u32(buf, arg[1]).v < Huge => res.v = read_u32(buf, arg[1]).v
                /\ read_u32(buf, arg[1]).v >= Huge => res.v < 0 \/ res.v >= Huge
           ELSE ~res.ok /\ ~read_u32(buf, arg[1]).ok

C11_Witness ==
    /\ pc = "called"
    /\ op = "read_i32"
    /\ arg = <<48>>
    /\ Len(buf) = 58
    /\ res = Ok(-4)

(* C12: table_field_string gives Ok(None) for a field whose slot offset is *)
(* 0, and gives a string only when the byte after its content is inside    *)
(* the buffer and is zero; with no such terminator the call is an error.   *)
C12_StringTerminator ==
    op = "table_field_string" =>
        /\ field_offset(buf, arg[2], arg[3]) = Ok(0) => res = Ok(None)
        /\ res.ok /\ res.v.some =>
               LET loc == table_field_string_loc(buf, arg[1], arg[2], arg[3]).v.x
                   end == loc.bytes_pos + loc.len IN
               /\ end < Len(buf)
               /\ buf[end + 1] = 0

(***************************************************************************)
(* Buffers of the three families.                                          *)
(*                                                                         *)
(* CatalogBase: what write_doc gives for the catalog of one entry with key *)
(* {25, 0, 0}, a model path and one animation.                             *)
(*                                                                         *)
(* TracnBase (80 bytes): root table at 12 whose field 0 is the vector at   *)
(* 20 of two entry tables, at 40 and 48, sharing the vtable at 32; field 1 *)
(* of the first is the string "a.tralk" at 56 and of the second the string *)
(* "b.tracn" at 68.                                                        *)
(*                                                                         *)
(* TracnOverlap (73 bytes): the same tables, but field 1 of the first      *)
(* entry is a string at 57 (length 6, ".tralk") and field 1 of the second  *)
(* a string at 56, whose length field is the byte 13 at 56 followed by the *)
(* first three bytes of the other string's length field.                   *)
(*                                                                         *)
(* TralkBase (216 bytes): root table at 20 whose field 4 is the vector at  *)
(* 28 of two group tables, at 92 and 136, sharing the 24 field vtable at   *)
(* 40: name (field 0), look_at_type (field 4) 0, six floats 1.0 (fields 8  *)
(* to 13), a flag byte 1 (field 15) and (field 23) a vector of two floats  *)
(* at 204.  The groups are named "head" (at 180) and "body" (at 192); the  *)
(* second has no field 23.                                                 *)
(*                                                                         *)
(* TracnMixed (96 bytes): root table at 12 whose field 0 is the vector at  *)
(* 20 of three entry tables, at 52, 60 and 64.  The first and the third    *)
(* use the vtable at 36 and have the strings "a.tralk" at 72 and ".tralk"  *)
(* at 84 as field 1; the second uses the vtable at 44, which has no field  *)
(* 1.                                                                      *)
(*                                                                         *)
(* TralkBare (64 bytes): root table at 20 whose field 4 is the vector at   *)
(* 28 of one group table, at 44, whose vtable at 36 has the one field 0:   *)
(* the name "head" at 52.                                                  *)
(***************************************************************************)
CatalogBase ==
    write_doc([version |-> 66051, entries |-> <<EntryScenario>>]).v

TracnBase ==
    <<12, 0, 0, 0, 6, 0, 8, 0, 4, 0, 0, 0, 8, 0, 0, 0, 4, 0, 0, 0, 2, 0, 0,
      0, 16, 0, 0, 0, 20, 0, 0, 0, 8, 0, 8, 0, 0, 0, 4, 0, 8, 0, 0, 0, 12,
      0, 0, 0, 16, 0, 0, 0, 16, 0, 0, 0, 7, 0, 0, 0, 97, 46, 116, 114, 97,
      108, 107, 0, 7, 0, 0, 0, 98, 46, 116, 114, 97, 99, 110, 0>>

TracnOverlap ==
    <<12, 0, 0, 0, 6, 0, 8, 0, 4, 0, 0, 0, 8, 0, 0, 0, 4, 0, 0, 0, 2, 0, 0,
      0, 16, 0, 0, 0, 20, 0, 0, 0, 8, 0, 8, 0, 0, 0, 4, 0, 8, 0, 0, 0, 13,
      0, 0, 0, 16, 0, 0, 0, 4, 0, 0, 0, 13, 6, 0, 0, 0, 46, 116, 114, 97,
      108, 107, 46, 116, 114, 97, 108, 107>>

TralkBase ==
    <<20, 0, 0, 0, 14, 0, 8, 0, 0, 0, 0, 0, 0, 0, 0, 0, 4, 0, 0, 0, 16, 0,
      0, 0, 4, 0, 0, 0, 2, 0, 0, 0, 60, 0, 0, 0, 100, 0, 0, 0, 52, 0, 44,
      0, 4, 0, 0, 0, 0, 0, 0, 0, 8, 0, 0, 0, 0, 0, 0, 0, 12, 0, 16, 0, 20,
      0, 24, 0, 28, 0, 32, 0, 0, 0, 40, 0, 0, 0, 0, 0, 0, 0, 0, 0, 0, 0, 0,
      0, 0, 0, 36, 0, 52, 0, 0, 0, 84, 0, 0, 0, 0, 0, 0, 0, 0, 0, 128, 63,
      0, 0, 128, 63, 0, 0, 128, 63, 0, 0, 128, 63, 0, 0, 128, 63, 0, 0,
      128, 63, 76, 0, 0, 0, 1, 0, 0, 0, 96, 0, 0, 0, 52, 0, 0, 0, 0, 0, 0,
      0, 0, 0, 128, 63, 0, 0, 128, 63, 0, 0, 128, 63, 0, 0, 128, 63, 0, 0,
      128, 63, 0, 0, 128, 63, 0, 0, 0, 0, 1, 0, 0, 0, 4, 0, 0, 0, 104, 101,
      97, 100, 0, 0, 0, 0, 4, 0, 0, 0, 98, 111, 100, 121, 0, 0, 0, 0, 2, 0,
      0, 0, 0, 0, 128, 63, 0, 0, 128, 63>>

TracnMixed ==
    <<12, 0, 0, 0, 6, 0, 8, 0, 4, 0, 0, 0, 8, 0, 0, 0, 4, 0, 0, 0, 3, 0, 0,
      0, 28, 0, 0, 0, 32, 0, 0, 0, 32, 0, 0, 0, 8, 0, 8, 0, 0, 0, 4, 0, 6,
      0, 4, 0, 0, 0, 0, 0, 16, 0, 0, 0, 16, 0, 0, 0, 16, 0, 0, 0, 28, 0, 0,
      0, 16, 0, 0, 0, 7, 0, 0, 0, 97, 46, 116, 114, 97, 108, 107, 0, 6, 0,
      0, 0, 46, 116, 114, 97, 108, 107, 0, 0>>

TralkBare ==
    <<20, 0, 0, 0, 14, 0, 8, 0, 0, 0, 0, 0, 0, 0, 0, 0, 4, 0, 0, 0, 16, 0,
      0, 0, 4, 0, 0, 0, 1, 0, 0, 0, 12, 0, 0, 0, 6, 0, 8, 0, 4, 0, 0, 0, 8,
      0, 0, 0, 4, 0, 0, 0, 4, 0, 0, 0, 104, 101, 97, 100, 0, 0, 0, 0>>

(* TracnBase with field 1 of the second entry, the offset at 52, leading   *)
(* to the string at 56 that field 1 of the first entry leads to; and the    *)
(* same with a byte of that string's content replaced.                      *)
TracnShared == SetByte(TracnBase, 52, 4)

FuzzBytes == {0, 255}

SharedTracn ==
    {TracnShared} \cup {SetByte(TracnShared, p, v) : p \in 60..66, v \in FuzzBytes}

(* The encodes of the documents. *)
CatalogCorpus == {write_doc(d).v : d \in Docs}

Corrupted(b) ==
    Prefixes(b) \cup {SetByte(b, p, v) : p \in 0..(Len(b) - 1), v \in FuzzBytes}

FuzzCorpus ==
    Corrupted(CatalogBase) \cup Corrupted(TracnBase)
    \cup Corrupted(TracnOverlap) \cup Corrupted(TralkBase)
    \cup Corrupted(TracnMixed) \cup Corrupted(TralkBare)
    \cup SharedTracn \cup CatalogCorpus

(***************************************************************************)
(* SpecFuzz: one of the readers or patchers is called on a buffer that is  *)
(* a valid one, a truncation of one, or one with a corrupted byte; the     *)
(* string zeroing may then be called again on the buffer it left.  buf0 is *)
(* the buffer as the call last made found it, buf as it left it.           *)
(***************************************************************************)
InitFuzz ==
    /\ buf \in FuzzCorpus
    /\ buf0 = buf
    /\ doc = DocNone
    /\ pc = "input"
    /\ op = "none"
    /\ arg = <<>>
    /\ res = Ok(0)
    /\ log = <<>>

ReadDoc ==
    /\ pc = "input"
    /\ res' \in Outcomes(read_doc(buf))
    /\ pc' = "called"
    /\ op' = "read_doc"
    /\ UNCHANGED <<buf, buf0, doc, arg, log>>

ReadEntries ==
    /\ pc = "input"
    /\ res' \in Outcomes(read_entries(buf))
    /\ pc' = "called"
    /\ op' = "read_entries"
    /\ UNCHANGED <<buf, buf0, doc, arg, log>>

Strip ==
    /\ pc = "input"
    /\ LET s == strip_tralk_filenames_in_place(buf) IN
        /\ res' \in Outcomes(s.r)
        /\ buf' = s.b
    /\ buf0' = buf
    /\ pc' = "stripped"
    /\ op' = "strip_tralk_filenames_in_place"
    /\ UNCHANGED <<doc, arg, log>>

StripAgain ==
    /\ pc = "stripped"
    /\ res.ok
    /\ LET s == strip_tralk_filenames_in_place(buf) IN
        /\ res' \in Outcomes(s.r)
        /\ buf' = s.b
    /\ buf0' = buf
    /\ pc' = "stripped twice"
    /\ op' = "strip_tralk_filenames_in_place"
    /\ UNCHANGED <<doc, arg, log>>

Patch ==
    /\ pc = "input"
    /\ LET s == patch_no_head_joint_rotation_in_place(buf) IN
        /\ res' \in Outcomes(s.r)
        /\ buf' = s.b
    /\ buf0' = buf
    /\ pc' = "patched"
    /\ op' = "patch_no_head_joint_rotation_in_place"
    /\ UNCHANGED <<doc, arg, log>>

(* read_entries on a buffer read_doc has decoded; doc is what read_doc     *)
(* returned.                                                               *)
Project ==
    /\ pc = "called"
    /\ op = "read_doc"
    /\ res.ok
    /\ doc' = res.v
    /\ res' \in Outcomes(read_entries(buf))
    /\ pc' = "projected"
    /\ op' = "read_entries"
    /\ UNCHANGED <<buf, buf0, arg, log>>

(* The joint-rotation patcher on the buffer a successful call of it left;  *)
(* arg keeps the count that call returned and the buffer it was given.     *)
PatchAgain ==
    /\ pc = "patched"
    /\ res.ok
    /\ LET s == patch_no_head_joint_rotation_in_place(buf) IN
        /\ res' \in Outcomes(s.r)
        /\ buf' = s.b
    /\ buf0' = buf
    /\ arg' = <<res.v, buf0>>
    /\ pc' = "patched twice"
    /\ op' = "patch_no_head_joint_rotation_in_place"
    /\ UNCHANGED <<doc, log>>

NextFuzz ==
    \/ ReadDoc
    \/ ReadEntries
    \/ Strip
    \/ StripAgain
    \/ Patch
    \/ Project
    \/ PatchAgain

SpecFuzz == InitFuzz /\ [][NextFuzz]_vars

(* C2: on every buffer, whatever its length and content, read_doc,         *)
(* read_entries, strip_tralk_filenames_in_place and                        *)
(* patch_no_head_joint_rotation_in_place end in Ok or in an Err value:     *)
(* none of them ends the process and none indexes outside the buffer.      *)
C2_BoundsSafety ==
    op \in {"read_doc", "read_entries", "strip_tralk_filenames_in_place",
            "patch_no_head_joint_rotation_in_place"} =>
        res.ok \/ res.err \notin {"abort", "panic"}

(* C3: when strip_tralk_filenames_in_place has succeeded on a buffer, a    *)
(* second call on the buffer it left succeeds, changes no byte and returns *)
(* the count 0.                                                            *)
C3_StripIdempotent ==
    pc = "stripped twice" => res.ok /\ res.v = 0 /\ buf = buf0

(* C4: each of the two patchers leaves the buffer as long as it found it,  *)
(* whether it returns Ok or Err.                                           *)
C4_LengthPreserved ==
    op \in {"strip_tralk_filenames_in_place",
            "patch_no_head_joint_rotation_in_place"} =>
        Len(buf) = Len(buf0)

C4_Witness ==
    /\ pc = "stripped"
    /\ res.ok
    /\ res.v = 1
    /\ buf # buf0
    /\ Len(buf0) = 80

(* C5: read_doc replaces an absent field by its default and keeps the      *)
(* entry: an absent version is 0, an absent entries vector is the empty    *)
(* list, and the entries returned are as many as the slots of the entries  *)
(* vector whose offset is not 0.                                           *)
C5_AbsenceDefaulting ==
    op = "read_doc" /\ res.ok =>
        LET root == root_table_pos(buf).v
            vt == vtable_pos(buf, root).v
            vec == VecAt(buf, root, vt, 1) IN
        /\ field_offset(buf, vt, 0) = Ok(0) => res.v.version = 0
        /\ Len(res.v.entries) =
               IF vec.present THEN Len(SlotTargets(buf, vec)) ELSE 0

(***************************************************************************)
(* What a patcher finds in the buffer it is given: whether field i of the  *)
(* root table is absent, the tables of the root's vector field i, and      *)
(* whether field i of the table at tpos is absent.                         *)
(***************************************************************************)
RootFieldAbsent(b, i) ==
    /\ root_table_pos(b).ok
    /\ vtable_pos(b, root_table_pos(b).v).ok
    /\ field_offset(b, vtable_pos(b, root_table_pos(b).v).v, i) = Ok(0)

RootVecTables(b, i) ==
    IF root_table_pos(b).ok /\ vtable_pos(b, root_table_pos(b).v).ok
    THEN table_field_vec_of_tables(b, root_table_pos(b).v,
                                   vtable_pos(b, root_table_pos(b).v).v, i)
    ELSE Err("root")

FieldAbsent(b, tpos, i) ==
    /\ vtable_pos(b, tpos).ok
    /\ field_offset(b, vtable_pos(b, tpos).v, i) = Ok(0)

(* C13: with field 0 of the root table absent the string zeroing returns   *)
(* Ok(0) and changes no byte, and so does the joint-rotation patcher with  *)
(* field 4 absent; an entry whose field 1 is absent is passed over: it is  *)
(* not counted, and a buffer all of whose entries have no field 1 gives    *)
(* Ok(0) and is left unchanged.                                            *)
C13_NothingToPatch ==
    /\ op = "strip_tralk_filenames_in_place" /\ RootFieldAbsent(buf0, 0) =>
           res = Ok(0) /\ buf = buf0
    /\ op = "patch_no_head_joint_rotation_in_place" /\ RootFieldAbsent(buf0, 4) =>
           res = Ok(0) /\ buf = buf0
    /\ op = "strip_tralk_filenames_in_place"
         /\ RootVecTables(buf0, 0).ok /\ RootVecTables(buf0, 0).v.some =>
           LET es == RootVecTables(buf0, 0).v.x IN
           /\ (\A k \in 1..Len(es) : FieldAbsent(buf0, es[k], 1)) =>
                  res = Ok(0) /\ buf = buf0
           /\ res.ok =>
                  res.v <= Cardinality({k \in 1..Len(es) :
                                           ~FieldAbsent(buf0, es[k], 1)})

C13_Witness ==
    /\ pc = "stripped"
    /\ buf0 = TracnMixed
    /\ FieldAbsent(buf0, 60, 1)
    /\ res = Ok(2)

(* The fields of a group the joint-rotation patcher writes to.             *)
PatchableFields == {8, 9, 10, 11, 12, 13, 15, 23}

(* C14: the count the joint-rotation patcher returns is the number of      *)
(* groups it wrote to: it is no more than the number of groups that have   *)
(* one of the fields 8..13, 15 and 23, so a group with none of them is not *)
(* counted, and a call that returns a count above 0 has changed the        *)
(* buffer or found such a field.                                           *)
C14_CountOfGroupsChanged ==
    op = "patch_no_head_joint_rotation_in_place" /\ res.ok
      /\ RootVecTables(buf0, 4).ok /\ RootVecTables(buf0, 4).v.some =>
        LET gs == RootVecTables(buf0, 4).v.x IN
        res.v <= Cardinality({k \in 1..Len(gs) :
                     \E f \in PatchableFields : ~FieldAbsent(buf0, gs[k], f)})

(***************************************************************************)
(* Well-formed joint-rotation buffers: TralkBase, TralkBare, and TralkBase *)
(* with a byte of the scalar storage of a group (look_at_type, the floats, *)
(* the flag word) or of the elements of the field 23 vector replaced.      *)
(***************************************************************************)
TralkScalarBytes == (100..127) \cup (132..135) \cup (144..171) \cup (176..179)
                    \cup (208..215)

WellFormedTralk ==
    {TralkBase, TralkBare}
    \cup {SetByte(TralkBase, p, v) : p \in TralkScalarBytes, v \in FuzzBytes}

(* Whether the group at g passes the two tests of the patcher, and the     *)
(* byte positions of what it then writes: the w bytes of a present field   *)
(* and the elements of a present vector.                                   *)
GroupMatches(b, g) ==
    /\ unwrap_or(table_field_string(b, g, vtable_pos(b, g).v, 0).v, <<>>) = HeadName
    /\ unwrap_or(table_field_scalar_u32(b, g, vtable_pos(b, g).v, 4).v, 0) = 0

FieldStorage(b, g, f, w) ==
    LET loc == table_field_loc(b, g, vtable_pos(b, g).v, f) IN
    IF loc.ok /\ loc.v.some THEN loc.v.x .. (loc.v.x + w - 1) ELSE {}

VecElemStorage(b, g, f) ==
    LET vp == table_field_vec_pos(b, g, vtable_pos(b, g).v, f) IN
    IF vp.ok /\ vp.v.some
    THEN (vp.v.x + 4) .. (vp.v.x + 3 + 4 * read_u32(b, vp.v.x).v)
    ELSE {}

PatchableStorage(b) ==
    LET gs == RootVecTables(b, 4).v.x IN
    UNION {UNION {FieldStorage(b, gs[k], f, 4) : f \in 8..13}
           \cup FieldStorage(b, gs[k], 15, 1) \cup VecElemStorage(b, gs[k], 23) :
           k \in {j \in 1..Len(gs) : GroupMatches(b, gs[j])}}

(* C15: after a successful call of the joint-rotation patcher on a         *)
(* well-formed buffer, a byte that differs from the byte the call found    *)
(* lies in the storage of field 8..13 or 15, or in an element of the field *)
(* 23 vector, of a group named "head" whose look_at_type is 0.             *)
C15_PatchFrame ==
    op = "patch_no_head_joint_rotation_in_place" /\ res.ok
      /\ buf0 \in WellFormedTralk =>
        \A p \in 0..(Len(buf0) - 1) :
            buf[p + 1] # buf0[p + 1] => p \in PatchableStorage(buf0)

C15_Witness ==
    /\ pc = "patched"
    /\ buf0 = TralkBase
    /\ res = Ok(1)
    /\ buf # buf0
    /\ SubSeq(buf, 137, 204) = SubSeq(buf0, 137, 204)
    /\ SubSeq(buf, 209, 216) = <<0, 0, 0, 0, 0, 0, 0, 0>>

(* Whether the content of the field i string of the table at tpos, as its *)
(* length field declares it, runs past the end of the buffer.              *)
StringRunsPast(b, tpos, i) ==
    /\ vtable_pos(b, tpos).ok
    /\ LET loc == table_field_string_loc(b, tpos, vtable_pos(b, tpos).v, i) IN
       /\ loc.ok
       /\ loc.v.some
       /\ loc.v.x.bytes_pos + loc.v.x.len > Len(b)

(* Whether the patcher reaches the writes of the group at g, and whether   *)
(* one of them is past the end of the buffer: the count header or an       *)
(* element of the field 23 vector, or the byte of field 15.                *)
GroupReached(b, g) ==
    /\ vtable_pos(b, g).ok
    /\ table_field_string(b, g, vtable_pos(b, g).v, 0).ok
    /\ table_field_scalar_u32(b, g, vtable_pos(b, g).v, 4).ok
    /\ GroupMatches(b, g)

VecRunsPast(b, g) ==
    LET vp == table_field_vec_pos(b, g, vtable_pos(b, g).v, 23) IN
    /\ vp.ok
    /\ vp.v.some
    /\ \/ vp.v.x + 4 > Len(b)
       \/ vp.v.x + 4 + 4 * read_u32(b, vp.v.x).v > Len(b)

FlagRunsPast(b, g) ==
    LET loc == table_field_loc(b, g, vtable_pos(b, g).v, 15) IN
    loc.ok /\ loc.v.some /\ loc.v.x >= Len(b)

(* C16: a patcher that meets a string, a vector or a field reaching past   *)
(* the end of the buffer returns an error: the string zeroing when the     *)
(* field 1 string of an entry runs past the end, the joint-rotation        *)
(* patcher when the field 23 vector or the field 15 byte of a group it     *)
(* patches does.                                                           *)
C16_PatchersPropagate ==
    /\ op = "strip_tralk_filenames_in_place"
         /\ RootVecTables(buf0, 0).ok /\ RootVecTables(buf0, 0).v.some =>
           LET es == RootVecTables(buf0, 0).v.x IN
           (\E k \in 1..Len(es) : StringRunsPast(buf0, es[k], 1)) => ~res.ok
    /\ op = "patch_no_head_joint_rotation_in_place"
         /\ RootVecTables(buf0, 4).ok /\ RootVecTables(buf0, 4).v.some =>
           LET gs == RootVecTables(buf0, 4).v.x IN
           (\E k \in 1..Len(gs) :
               /\ GroupReached(buf0, gs[k])
               /\ VecRunsPast(buf0, gs[k]) \/ FlagRunsPast(buf0, gs[k])) => ~res.ok

(* C17: when a patcher returns Err, the buffer is byte for byte the buffer *)
(* the call was given.                                                     *)
C17_NoPartialPatch ==
    op \in {"strip_tralk_filenames_in_place",
            "patch_no_head_joint_rotation_in_place"} /\ ~res.ok =>
        buf = buf0

(***************************************************************************)
(* Well-formed track buffers: TracnBase, TracnMixed, and TracnBase with a  *)
(* content byte of one of its two strings replaced.                        *)
(***************************************************************************)
TracnContentBytes == (60..66) \cup (72..78)

WellFormedTracn ==
    {TracnBase, TracnMixed}
    \cup {SetByte(TracnBase, p, v) : p \in TracnContentBytes, v \in FuzzBytes}

(* The field 1 string of the table at tpos, as found in b: where its       *)
(* length prefix and content are, and whether the content bytes end with   *)
(* the six bytes ".tralk".                                                 *)
TrackString(b, tpos) ==
    table_field_string_loc(b, tpos, vtable_pos(b, tpos).v, 1).v

NamesTralk(b, tpos) ==
    /\ TrackString(b, tpos).some
    /\ LET loc == TrackString(b, tpos).x IN
       /\ loc.len >= 6
       /\ SubSeq(b, loc.bytes_pos + loc.len - 5, loc.bytes_pos + loc.len) = TralkSuffix

StringStorage(b, tpos) ==
    LET loc == TrackString(b, tpos).x IN
    (loc.len_pos .. (loc.len_pos + 3))
    \cup (loc.bytes_pos .. (loc.bytes_pos + loc.len - 1))

(* C18: after a successful string zeroing of a well-formed buffer, every   *)
(* field 1 string that ended with ".tralk" has length prefix 0 and content *)
(* bytes 0, every byte outside the prefix and content of those strings is  *)
(* unchanged, and the entries and their strings are found at the same      *)
(* positions as before.                                                    *)
C18_StripEffectAndFrame ==
    pc = "stripped" /\ res.ok /\ buf0 \in WellFormedTracn =>
        LET es == RootVecTables(buf0, 0).v.x
            Z == {k \in 1..Len(es) : NamesTralk(buf0, es[k])} IN
        /\ \A k \in Z :
               /\ U32At(buf, TrackString(buf0, es[k]).x.len_pos) = 0
               /\ \A p \in StringStorage(buf0, es[k]) : buf[p + 1] = 0
        /\ \A p \in 0..(Len(buf0) - 1) :
               buf[p + 1] # buf0[p + 1] =>
                   \E k \in Z : p \in StringStorage(buf0, es[k])
        /\ RootVecTables(buf, 0) = RootVecTables(buf0, 0)
        /\ \A k \in 1..Len(es) :
               /\ TrackString(buf, es[k]).some = TrackString(buf0, es[k]).some
               /\ TrackString(buf, es[k]).some =>
                      /\ TrackString(buf, es[k]).x.len_pos
                             = TrackString(buf0, es[k]).x.len_pos
                      /\ TrackString(buf, es[k]).x.bytes_pos
                             = TrackString(buf0, es[k]).x.bytes_pos

C18_Witness ==
    /\ pc = "stripped"
    /\ buf0 = TracnBase
    /\ res = Ok(1)
    /\ SubSeq(buf, 57, 68) = <<0, 0, 0, 0, 0, 0, 0, 0, 0, 0, 0, 0>>
    /\ SubSeq(buf, 69, 80) = SubSeq(buf0, 69, 80)

(***************************************************************************)
(* The order of the writes of an encode, read off the log.  An object is   *)
(* started by write_table_header (its bytes start at the vtable, at, and   *)
(* its position is v), by write_string or by write_vec_of_tables; the      *)
(* writes into bytes already there are those of patch_u32 (4 bytes) and    *)
(* write_vtable (v bytes).                                                 *)
(***************************************************************************)
Starts == {"write_table_header", "write_string", "write_vec_of_tables"}

Width(e) == IF e.op = "patch_u32" THEN 4 ELSE e.v

(* Whether entry m of the log writes into the bytes lo..hi - 1.            *)
WritesInto(m, lo, hi) ==
    /\ log[m].op \in {"patch_u32", "write_vtable"}
    /\ log[m].at < hi
    /\ log[m].at + Width(log[m]) > lo

(* Entry k patches a slot with the offset of the object started at entry   *)
(* j: the slot was there, holding 0, before the object was started; the    *)
(* offset is the distance from the slot to the object; a table has had its *)
(* vtable written; and nothing after k writes into the object or into what *)
(* was written after it up to the patch.                                   *)
PatchedAfterWritten(j, k) ==
    /\ j < k
    /\ log[j].op \in Starts
    /\ log[j].v = log[k].at + log[k].v
    /\ log[k].v > 0
    /\ log[k].old = 0
    /\ log[k].at + 4 <= log[j].len
    /\ log[j].op = "write_table_header" =>
           \E m \in (j + 1)..(k - 1) :
               log[m].op = "write_vtable" /\ log[m].at = log[j].at
    /\ \A m \in (k + 1)..Len(log) : ~WritesInto(m, log[j].at, log[k].len)

(* C19: in an encode, every patch of a slot of a table or of a vector (any *)
(* slot but the root slot at 0) comes after the object it refers to, and   *)
(* all that object refers to, has been written; the slot was reserved,     *)
(* holding 0, before that object was started; and the value patched is the *)
(* object's position less the slot's, which is more than 0.                *)
C19_PatchAfterWrite ==
    pc \in {"written", "read"} =>
        \A k \in 1..Len(log) :
            log[k].op = "patch_u32" /\ log[k].at # 0 =>
                \E j \in 1..(k - 1) : PatchedAfterWritten(j, k)

C19_Witness ==
    /\ pc = "written"
    /\ res.ok
    /\ Len(doc.entries) = 2
    /\ \E i \in 1..2 : Len(doc.entries[i].animations) = 2
    /\ Cardinality({k \in 1..Len(log) : log[k].op = "patch_u32"}) >= 20

(* C20: the encode reserves the root slot, the 4 bytes at 0, before it     *)
(* starts any object, and the patch of the root slot is the last write it  *)
(* makes: the version table and the entries vector are written before it.  *)
C20_RootPatchedLast ==
    pc \in {"written", "read"} =>
        /\ log[1].op \in Starts
        /\ log[1].len >= 4
        /\ log[Len(log)].op = "patch_u32"
        /\ log[Len(log)].at = 0

(* C21: in an encode, every vtable starts at a position divisible by 2,    *)
(* and every table body, string and vector at a position divisible by 4,   *)
(* whatever was written before it.                                         *)
C21_Alignment ==
    pc \in {"written", "read"} =>
        \A k \in 1..Len(log) :
            /\ log[k].op = "write_table_header" =>
                   log[k].at % 2 = 0 /\ log[k].v % 4 = 0
            /\ log[k].op \in {"write_string", "write_vec_of_tables"} =>
                   log[k].at % 4 = 0

C21_Witness ==
    /\ pc = "written"
    /\ res.ok
    /\ \E k \in 1..Len(log) :
           log[k].op = "write_table_header" /\ log[k].len % 2 = 1
    /\ \E k \in 1..Len(log) :
           log[k].op = "write_string" /\ log[k].len % 4 = 3
    /\ \E k \in 1..Len(log) :
           log[k].op = "write_vec_of_tables" /\ log[k].len % 4 # 0

TableVec(b, tpos, i) ==
    IF vtable_pos(b, tpos).ok
         /\ table_field_vec_of_tables(b, tpos, vtable_pos(b, tpos).v, i).ok
         /\ table_field_vec_of_tables(b, tpos, vtable_pos(b, tpos).v, i).v.some
    THEN table_field_vec_of_tables(b, tpos, vtable_pos(b, tpos).v, i).v.x
    ELSE <<>>

(* The position field i of the table at tpos is stored at.                 *)
FieldPos(b, tpos, i) == tpos + field_offset(b, vtable_pos(b, tpos).v, i).v

(* Field i of the table at tpos leads to the length Len(s), then the bytes *)
(* of s, then a byte 0, all inside b.                                      *)
StringIs(b, tpos, i, s) ==
    LET target == FieldPos(b, tpos, i) + U32At(b, FieldPos(b, tpos, i)) IN
    /\ table_field_string_loc(b, tpos, vtable_pos(b, tpos).v, i)
         = Ok(Some([len_pos |-> target, bytes_pos |-> target + 4, len |-> Len(s)]))
    /\ target + 4 + Len(s) < Len(b)
    /\ U32At(b, target) = Len(s)
    /\ SubSeq(b, target + 5, target + 4 + Len(s)) = s
    /\ b[target + 4 + Len(s) + 1] = 0

(* C23: each string field of each table of an encode leads to the 32 bit   *)
(* length n of the string in bytes, then its n bytes, then one zero byte   *)
(* not counted in n; so does field 1 of an entry, the model path.          *)
C23_StringLayout ==
    pc \in {"written", "read"} =>
        LET es == TableVec(buf, root_table_pos(buf).v, 1) IN
        /\ Len(es) = Len(doc.entries)
        /\ \A k \in 1..Len(es) :
               /\ StringIs(buf, es[k], 1, doc.entries[k].model_path)
               /\ StringIs(buf, es[k], 2, doc.entries[k].material_table_path)
               /\ StringIs(buf, es[k], 3, doc.entries[k].config_path)
               /\ StringIs(buf, es[k], 6, doc.entries[k].icon_path)
               /\ StringIs(buf, es[k], 8, doc.entries[k].defence_path)
               /\ Len(TableVec(buf, es[k], 4)) = Len(doc.entries[k].animations)
               /\ \A j \in 1..Len(doc.entries[k].animations) :
                      StringIs(buf, TableVec(buf, es[k], 4)[j], 1,
                               doc.entries[k].animations[j].path)
               /\ Len(TableVec(buf, es[k], 5)) = Len(doc.entries[k].locators)
               /\ \A j \in 1..Len(doc.entries[k].locators) :
                      StringIs(buf, TableVec(buf, es[k], 5)[j], 2,
                               doc.entries[k].locators[j].loc_path)

C23_Witness ==
    /\ pc = "written"
    /\ res.ok
    /\ Len(doc.entries) = 2
    /\ doc.entries[1].model_path = StrModelPath
    /\ doc.entries[1].defence_path = <<>>
    /\ doc.entries[2].icon_path = <<100, 0, 100>>
    /\ StringIs(buf, TableVec(buf, root_table_pos(buf).v, 1)[2], 6, <<100, 0, 100>>)
    /\ StringIs(buf, TableVec(buf, root_table_pos(buf).v, 1)[1], 1, StrModelPath)
    /\ StringIs(buf, TableVec(buf, root_table_pos(buf).v, 1)[1], 8, <<>>)

(* C24: a form number v of an animation or a locator is stored at field 0  *)
(* of its table as the 16 bits v mod 2^16, low byte first, and is decoded  *)
(* as v; put_i16 followed by the decoder's cast gives back every v of      *)
(* -32768..32767.                                                          *)
C24_FormNumbers ==
    /\ pc \in {"written", "read"} =>
           LET es == TableVec(buf, root_table_pos(buf).v, 1) IN
           /\ Len(es) = Len(doc.entries)
           /\ \A k \in 1..Len(es) :
                  /\ Len(TableVec(buf, es[k], 4)) = Len(doc.entries[k].animations)
                  /\ \A j \in 1..Len(doc.entries[k].animations) :
                         /\ field_offset(buf, vtable_pos(buf, TableVec(buf, es[k], 4)[j]).v, 0).v # 0
                         /\ U16At(buf, FieldPos(buf, TableVec(buf, es[k], 4)[j], 0))
                              = doc.entries[k].animations[j].form_number % 65536
                         /\ pc = "read" =>
                                res.v.entries[k].animations[j].form_number
                                  = doc.entries[k].animations[j].form_number
                  /\ Len(TableVec(buf, es[k], 5)) = Len(doc.entries[k].locators)
                  /\ \A j \in 1..Len(doc.entries[k].locators) :
                         /\ field_offset(buf, vtable_pos(buf, TableVec(buf, es[k], 5)[j]).v, 0).v # 0
                         /\ U16At(buf, FieldPos(buf, TableVec(buf, es[k], 5)[j], 0))
                              = doc.entries[k].locators[j].form_number % 65536
                         /\ pc = "read" =>
                                res.v.entries[k].locators[j].form_number
                                  = doc.entries[k].locators[j].form_number
    /\ pc = "doc" /\ doc = DocNone =>
           \A v \in -32768..32767 :
               /\ put_i16(Writer_new, v).b = <<(v % 65536) % 256, (v % 65536) \div 256>>
               /\ as_i16(U16At(put_i16(Writer_new, v).b, 0)) = v

C24_Witness ==
    /\ pc = "read"
    /\ res.ok
    /\ \E k \in 1..Len(doc.entries) :
           /\ Len(doc.entries[k].animations) = 2
           /\ doc.entries[k].animations[1].form_number = -32768
           /\ res.v.entries[k].animations[1].form_number = -32768
           /\ res.v.entries[k].animations[2].form_number = 32767
           /\ res.v.entries[k].locators[1].form_number = -1
           /\ U16At(buf, FieldPos(buf, TableVec(buf,
                   TableVec(buf, root_table_pos(buf).v, 1)[k], 5)[1], 0)) = 65535

(* C25: an encode makes every patch of a slot and every write of a vtable  *)
(* inside the bytes written so far, and gives Ok for every document.       *)
C25_EncoderNeverFails ==
    pc \in {"written", "read"} =>
        /\ op = "write_doc" => res.ok
        /\ buf # <<>>
        /\ \A k \in 1..Len(log) :
               log[k].op \in {"patch_u32", "write_vtable"} =>
                   log[k].at + Width(log[k]) <= log[k].len
        /\ Cardinality({k \in 1..Len(log) : log[k].op = "write_vtable"})
             = Cardinality({k \in 1..Len(log) : log[k].op = "write_table_header"})

C25_Witness ==
    /\ pc = "written"
    /\ res.ok
    /\ Len(doc.entries) = 2
    /\ \E i \in 1..2 : Len(doc.entries[i].animations) = 2
    /\ \E i \in 1..2 : Len(doc.entries[i].locators) = 2
    /\ Cardinality({k \in 1..Len(log) : log[k].op = "write_vtable"}) >= 9

(* C26: after a successful call of the joint-rotation patcher on a         *)
(* well-formed buffer, in each group named "head" whose look_at_type is 0  *)
(* every present field 8..13 holds 6F 12 83 3A, the bits 3A83126F of the   *)
(* 32 bit float 0.001 low byte first, the byte of a present field 15 is 0, *)
(* every element of a present field 23 vector is 00 00 00 00, and the      *)
(* count of that vector is the count the call found.                       *)
C26_PatchedValues ==
    op = "patch_no_head_joint_rotation_in_place" /\ res.ok
      /\ buf0 \in WellFormedTralk =>
        \A g \in {RootVecTables(buf0, 4).v.x[k] :
                     k \in 1..Len(RootVecTables(buf0, 4).v.x)} :
            GroupMatches(buf0, g) =>
                /\ \A f \in 8..13 :
                       ~FieldAbsent(buf0, g, f) =>
                           SubSeq(buf, FieldPos(buf0, g, f) + 1, FieldPos(buf0, g, f) + 4)
                             = <<111, 18, 131, 58>>
                /\ ~FieldAbsent(buf0, g, 15) => buf[FieldPos(buf0, g, 15) + 1] = 0
                /\ ~FieldAbsent(buf0, g, 23) =>
                       LET vec_pos == table_field_vec_pos(buf0, g, vtable_pos(buf0, g).v, 23).v.x IN
                       /\ U32At(buf, vec_pos) = U32At(buf0, vec_pos)
                       /\ \A p \in VecElemStorage(buf0, g, 23) : buf[p + 1] = 0

C26_Witness ==
    /\ pc = "patched"
    /\ buf0 = TralkBase
    /\ res = Ok(1)
    /\ \E g \in {RootVecTables(buf0, 4).v.x[k] :
                     k \in 1..Len(RootVecTables(buf0, 4).v.x)} :
           /\ GroupMatches(buf0, g)
           /\ \A f \in (8..13) \cup {15, 23} : ~FieldAbsent(buf0, g, f)
           /\ SubSeq(buf0, FieldPos(buf0, g, 8) + 1, FieldPos(buf0, g, 8) + 4)
                # <<111, 18, 131, 58>>
           /\ SubSeq(buf, FieldPos(buf0, g, 13) + 1, FieldPos(buf0, g, 13) + 4)
                = <<111, 18, 131, 58>>
           /\ buf0[FieldPos(buf0, g, 15) + 1] # 0
           /\ Cardinality(VecElemStorage(buf0, g, 23)) = 8
           /\ \E p \in VecElemStorage(buf0, g, 23) : buf0[p + 1] # 0

(* The (key, model_path) pairs of the entries from the i-th on whose       *)
(* model_path is not empty, in their order.                                *)
RECURSIVE KeyPaths(_, _)
KeyPaths(entries, i) ==
    IF i > Len(entries) THEN <<>>
    ELSE IF entries[i].model_path = <<>> THEN KeyPaths(entries, i + 1)
    ELSE <<[key |-> entries[i].key, model_path |-> entries[i].model_path]>>
             \o KeyPaths(entries, i + 1)

(* C27: on a buffer read_doc decodes, read_entries succeeds and returns,   *)
(* in the same order, the (key, model_path) pairs of the entries of        *)
(* read_doc whose model_path is not empty.                                 *)
C27_EntriesProjection ==
    pc = "projected" => res.ok /\ res.v = KeyPaths(doc.entries, 1)

C27_Witness ==
    /\ pc = "projected"
    /\ res.ok
    /\ Len(doc.entries) = 2
    /\ doc.entries[1].model_path = <<>>
    /\ doc.entries[2].model_path # <<>>
    /\ Len(doc.entries[2].animations) = 2
    /\ res.v = <<[key |-> doc.entries[2].key, model_path |-> doc.entries[2].model_path]>>

(* C29: a second call of the joint-rotation patcher, on the buffer a       *)
(* successful call on a well-formed buffer left, succeeds, changes no byte *)
(* and returns the count the first call returned.                          *)
C29_PatchIdempotent ==
    pc = "patched twice" /\ arg[2] \in WellFormedTralk =>
        /\ res.ok
        /\ buf = buf0
        /\ res.v = arg[1]

C29_Witness ==
    /\ pc = "patched twice"
    /\ arg = <<1, TralkBase>>
    /\ buf0 # TralkBase
    /\ res = Ok(1)
    /\ buf = buf0

(* C30: when field 1 of several entries leads to the same string ending    *)
(* with ".tralk", the string zeroing zeroes it once: the count it returns  *)
(* is the number of distinct strings it zeroed, and afterwards field 1 of  *)
(* each of those entries is a present, empty string.                       *)
C30_SharedStrings ==
    pc = "stripped" /\ res.ok /\ buf0 \in WellFormedTracn \cup SharedTracn =>
        LET es == RootVecTables(buf0, 0).v.x
            Z == {k \in 1..Len(es) : NamesTralk(buf0, es[k])} IN
        /\ res.v = Cardinality({TrackString(buf0, es[k]).x.bytes_pos : k \in Z})
        /\ \A k \in Z :
               table_field_string(buf, es[k], vtable_pos(buf, es[k]).v, 1)
                 = Ok(Some(<<>>))

C30_Witness ==
    /\ pc = "stripped"
    /\ buf0 = TracnShared
    /\ res = Ok(1)
    /\ Len(RootVecTables(buf0, 0).v.x) = 2
    /\ \A k \in 1..2 : NamesTralk(buf0, RootVecTables(buf0, 0).v.x[k])
    /\ TrackString(buf0, RootVecTables(buf0, 0).v.x[1])
         = TrackString(buf0, RootVecTables(buf0, 0).v.x[2])
    /\ SubSeq(buf, 57, 68) = <<0, 0, 0, 0, 0, 0, 0, 0, 0, 0, 0, 0>>

(***************************************************************************)
(* The tables of an encode, found from the root as read_doc finds them,    *)
(* each with the widths in bytes of the fields of its shape: the root      *)
(* (version table, entries vector), the version table (version), an entry  *)
(* (nine fields of 4 bytes), a species key (u16, u16, u8), an animation    *)
(* (i16, string) and a locator (i16, u8, string).                          *)
(***************************************************************************)
TableAt(b, tpos, i) ==
    unwrap_or(table_field_table_pos(b, tpos, vtable_pos(b, tpos).v, i).v, 0)

EntryTables(b, epos) ==
    {[tpos |-> epos, widths |-> <<4, 4, 4, 4, 4, 4, 4, 4, 4>>],
     [tpos |-> TableAt(b, epos, 0), widths |-> <<2, 2, 1>>]}
    \cup {[tpos |-> TableVec(b, epos, 4)[j], widths |-> <<2, 4>>] :
              j \in 1..Len(TableVec(b, epos, 4))}
    \cup {[tpos |-> TableVec(b, epos, 5)[j], widths |-> <<2, 1, 4>>] :
              j \in 1..Len(TableVec(b, epos, 5))}

Tables(b) ==
    {[tpos |-> root_table_pos(b).v, widths |-> <<4, 4>>],
     [tpos |-> TableAt(b, root_table_pos(b).v, 0), widths |-> <<4>>]}
    \cup UNION {EntryTables(b, TableVec(b, root_table_pos(b).v, 1)[k]) :
                    k \in 1..Len(TableVec(b, root_table_pos(b).v, 1))}

(* The number of bytes the writer of the table at tpos put from tpos on    *)
(* before it made its next call: the length the next entry of the log      *)
(* found, less tpos.                                                       *)
BodyLen(tpos) ==
    LET k == CHOOSE j \in 1..Len(log) :
                 log[j].op = "write_table_header" /\ log[j].v = tpos IN
    log[k + 1].len - tpos

VtableOf(b, tpos) == tpos - I32At(b, tpos)

(* C28: for each table of an encode, the first 16 bit value of its vtable  *)
(* is 4 + 2 * the number of fields of its shape, the second is the number  *)
(* of bytes of its inline body, and the offset of each field is not 0, is  *)
(* not the offset of another field, and leaves the field's bytes inside    *)
(* the inline body.                                                        *)
C28_VtableConsistency ==
    pc \in {"written", "read"} =>
        /\ Cardinality({t.tpos : t \in Tables(buf)})
             = Cardinality({k \in 1..Len(log) : log[k].op = "write_table_header"})
        /\ \A t \in Tables(buf) :
               /\ \E k \in 1..Len(log) :
                      log[k].op = "write_table_header" /\ log[k].v = t.tpos
               /\ U16At(buf, VtableOf(buf, t.tpos)) = 4 + 2 * Len(t.widths)
               /\ U16At(buf, VtableOf(buf, t.tpos) + 2) = BodyLen(t.tpos)
               /\ \A i \in 1..Len(t.widths) :
                      /\ field_offset(buf, VtableOf(buf, t.tpos), i - 1).ok
                      /\ field_offset(buf, VtableOf(buf, t.tpos), i - 1).v # 0
                      /\ field_offset(buf, VtableOf(buf, t.tpos), i - 1).v + t.widths[i]
                           <= BodyLen(t.tpos)
                      /\ \A j \in 1..Len(t.widths) :
                             j # i =>
                                 field_offset(buf, VtableOf(buf, t.tpos), j - 1).v
                                   # field_offset(buf, VtableOf(buf, t.tpos), i - 1).v

C28_Witness ==
    /\ pc = "written"
    /\ res.ok
    /\ Len(doc.entries) = 2
    /\ doc.entries[1] = EntryEmpty
    /\ Len(doc.entries[2].animations) = 2
    /\ Len(doc.entries[2].locators) = 2
    /\ Cardinality(Tables(buf)) = 10
    /\ {Len(t.widths) : t \in Tables(buf)} = {1, 2, 3, 9}
    /\ {BodyLen(t.tpos) : t \in Tables(buf)} = {8, 12, 40}

====
